---- MODULE Spec2Model ----
(***************************************************************************)
(* Verification model of the doodle reveal engine of doodle-ai-app:        *)
(* glyph grouping, sequencing, timeline compilation and the per-frame      *)
(* reveal mask of the DoodleVideoGenerator variants.                       *)
(*                                                                         *)
(* Conventions.                                                            *)
(*  - Pixel coordinates and lengths are integers.  A glyph centre          *)
(*    (x + w/2, y + h/2) is stored doubled, <<2x + w, 2y + h>>, and every  *)
(*    comparison the code makes on floats is made here on the exact        *)
(*    rationals by cross-multiplication.                                   *)
(*  - Times are whole seconds.                                             *)
(*  - A mask is a set of pixel classes <<contour id, kind, edge>>:         *)
(*    "in" is the interior of the contour polygon, "edge" j the pixels of  *)
(*    the polygon edge leaving point j, "halo" j the pixels of a thick     *)
(*    stroke along edge j that lie outside the polygon.                    *)
(***************************************************************************)
EXTENDS Integers, Sequences, FiniteSets, TLC

VARIABLES
    pc,              \* position of the run: "init", then the stage reached
    glyphs,          \* detected glyphs, in component-scan order
    segments,        \* self.segments as supplied by the caller
    labels,          \* V7: label of the dilated map sampled at each glyph's centre
    duration,        \* self.duration of the clip (constant-speed variants)
    ordered_glyphs,  \* result of a sequencing or grouping stage
    segment_glyphs,  \* V6: result of _cluster_glyphs_by_bbox
    glyph_sections,  \* section index -> ordered units
    segment_times,   \* list of [section_idx, start, end]
    t,               \* time of the last make_frame query (-1: none yet)
    reveal_mask,     \* mask computed by the last make_frame query
    image,           \* the file at image_path: "ok", "missing" or "undecodable"
    output,          \* the file at output_path: "absent", "partial" or "complete"
    raised,          \* the exception generate() has raised, "" for none
    reads,           \* number of cv2.imread calls made so far
    parts,           \* orchestrator: the narrated parts of the beat, [position, audio]
    audio_starts,    \* orchestrator: start of each part in the concatenated audio track
    boundary,        \* the boundary index a cache lookup was made for (-1: none yet)
    voices_cache,    \* voices.py: _VOICES_CACHE, "None" until assigned
    fetch_count,     \* number of calls of fetch_elevenlabs_voices so far
    callers,         \* the get_voices() calls: position, fetched result, returned value
    sessions,        \* the /ws/generate sessions: position, config, messages sent, machine, worker
    plan,            \* User.plan of the user
    video_count,     \* User.video_count of the user
    videos           \* the rows of the Video table, oldest first

vars == <<pc, glyphs, segments, labels, duration, ordered_glyphs, segment_glyphs,
          glyph_sections, segment_times, t, reveal_mask, image, output, raised, reads,
          parts, audio_starts,
          boundary,
          voices_cache, fetch_count, callers,
          sessions, plan, video_count, videos>>

\* What the caller and the segmenter hand to a generator
inputs == <<glyphs, segments, labels, duration>>

\* The files a generator reads and writes, and what it has done with them
io == <<image, output, raised, reads>>

\* A readable image, no output yet, nothing raised, nothing read
IoIdle == image = "ok" /\ output = "absent" /\ raised = "" /\ reads = 0

\* What process_video_request derives from the parts of one beat
beat == <<parts, audio_starts>>

BeatIdle == parts = <<>> /\ audio_starts = <<>>

\* The contour index handed to the mask cache
lookup == <<boundary>>

LookupIdle == boundary = -1

\* The module state of voices.py and the calls of get_voices() in progress
voices == <<voices_cache, fetch_count, callers>>

VoicesIdle == voices_cache = "None" /\ fetch_count = 0 /\ callers = <<>>

\* The /ws/generate sessions and the database rows they read and write
ws == <<sessions, plan, video_count, videos>>

\* No session, and the tables of a new user
WsIdle == sessions = <<>> /\ plan = "free" /\ video_count = 0 /\ videos = <<>>

----------------------------------------------------------------------------
(* Bounds of the model *)

MaxGlyphs == 3
MaxSegments == 2
MaxT == 9

----------------------------------------------------------------------------
(* Generic helpers *)

Abs(n) == IF n < 0 THEN -n ELSE n
Max2(a, b) == IF a >= b THEN a ELSE b
Min2(a, b) == IF a <= b THEN a ELSE b
Range(s) == {s[i] : i \in 1..Len(s)}

RECURSIVE SumSeq(_)
SumSeq(s) == IF s = <<>> THEN 0 ELSE Head(s) + SumSeq(Tail(s))

RECURSIVE Flatten(_)
Flatten(ss) == IF ss = <<>> THEN <<>> ELSE Head(ss) \o Flatten(Tail(ss))

\* Lexicographic order on integer tuples of equal length
RECURSIVE LexLess(_, _)
LexLess(a, b) ==
    IF a = <<>> THEN FALSE
    ELSE IF Head(a) # Head(b) THEN Head(a) < Head(b)
    ELSE LexLess(Tail(a), Tail(b))

\* Indices of S ordered by key, ties by index: what a stable sort produces
RECURSIVE SortIdx(_, _)
SortIdx(keys, S) ==
    IF S = {} THEN <<>>
    ELSE LET m == CHOOSE i \in S : \A j \in S :
                     \/ LexLess(keys[i], keys[j])
                     \/ (~LexLess(keys[j], keys[i]) /\ i <= j)
         IN <<m>> \o SortIdx(keys, S \ {m})

\* Python's sorted(seq, key=...): stable, ascending
Sorted(seq, keys) ==
    LET idx == SortIdx(keys, 1..Len(seq))
    IN [k \in 1..Len(seq) |-> seq[idx[k]]]

----------------------------------------------------------------------------
(* Input domain: glyphs and segments *)

width == 1920
\* Width of the resized image for a source of the canvas' aspect ratio
new_w == width

\* Python dict.get(key, default) on an optional field: <<>> absent, <<v>> present
Get(field, default) == IF field = <<>> THEN default ELSE field[1]

\* Bounding box, pixel area, perimeter and number of outline points of the
\* components the segmenter can report (area > 10, one external outline each)
Geoms ==
    { [x |-> 0,    y |-> 0,   w |-> 40,  h |-> 40,  area |-> 100,   len |-> 160,  npts |-> 3],
      [x |-> 50,   y |-> 0,   w |-> 40,  h |-> 40,  area |-> 100,   len |-> 160,  npts |-> 3],
      [x |-> 1000, y |-> 0,   w |-> 40,  h |-> 40,  area |-> 100,   len |-> 160,  npts |-> 3],
      [x |-> 1010, y |-> 30,  w |-> 40,  h |-> 40,  area |-> 100,   len |-> 160,  npts |-> 3],
      [x |-> 100,  y |-> 400, w |-> 200, h |-> 300, area |-> 12000, len |-> 1000, npts |-> 4] }

Glyph(i, g) ==
    [id |-> i, x |-> g.x, y |-> g.y, w |-> g.w, h |-> g.h, area |-> g.area,
     contours |-> << [cid |-> i, len |-> g.len, pts |-> g.npts] >>,
     total_len |-> g.len,
     center |-> <<2 * g.x + g.w, 2 * g.y + g.h>>]

\* Lists of distinct components, label i at position i
GlyphLists ==
    UNION { { [i \in 1..n |-> Glyph(i, f[i])] :
                f \in { f \in [1..n -> Geoms] :
                          \A i, j \in 1..n : i # j => f[i] # f[j] } } :
            n \in 0..MaxGlyphs }

\* Segment dicts: without keys, with a duration only, with position and duration
SegmentDicts ==
    { [position |-> <<>>,  duration |-> <<>>],
      [position |-> <<>>,  duration |-> <<2>>],
      [position |-> <<1>>, duration |-> <<2>>] }

SegmentLists == UNION { [1..n -> SegmentDicts] : n \in 0..MaxSegments }

----------------------------------------------------------------------------
(* DoodleVideoGeneratorV8._safely_merge_words *)

MergeAreaThreshold == 10000

vertical_match(cur, nxt) ==
    10 * Abs(cur.center[2] - nxt.center[2]) < 7 * (cur.h + nxt.h)

\* Mutant: the loose variant with the strict upper limit 0.4
horizontal_match_StrictLimit(cur, nxt) ==
    LET gap == nxt.x - (cur.x + cur.w)
    IN /\ 5 * gap < cur.h + nxt.h
       /\ 4 * gap > -(cur.h + nxt.h)

horizontal_match(cur, nxt) ==
    LET gap == nxt.x - (cur.x + cur.w)
    IN /\ 10 * gap < 6 * (cur.h + nxt.h)
       /\ 4 * gap > -(cur.h + nxt.h)

\* Mutant: the merge keeps the accumulator's contours and forgets the absorbed glyph's
MergeInto_DropsContours(cur, nxt) ==
    [cur EXCEPT !.w = Max2(cur.x + cur.w, nxt.x + nxt.w) - cur.x,
                !.area = cur.area + nxt.area,
                !.total_len = cur.total_len + nxt.total_len]

\* Mutant: the merge leaves the accumulator's centre where it was
MergeInto_StaleCenter(cur, nxt) ==
    LET new_x == Min2(cur.x, nxt.x)
        new_y == Min2(cur.y, nxt.y)
        new_r == Max2(cur.x + cur.w, nxt.x + nxt.w)
        new_b == Max2(cur.y + cur.h, nxt.y + nxt.h)
    IN [cur EXCEPT !.x = new_x, !.y = new_y,
                   !.w = new_r - new_x, !.h = new_b - new_y,
                   !.area = cur.area + nxt.area,
                   !.contours = cur.contours \o nxt.contours,
                   !.total_len = cur.total_len + nxt.total_len]

MergeInto(cur, nxt) ==
    LET new_x == Min2(cur.x, nxt.x)
        new_y == Min2(cur.y, nxt.y)
        new_r == Max2(cur.x + cur.w, nxt.x + nxt.w)
        new_b == Max2(cur.y + cur.h, nxt.y + nxt.h)
    IN [cur EXCEPT !.x = new_x, !.y = new_y,
                   !.w = new_r - new_x, !.h = new_b - new_y,
                   !.area = cur.area + nxt.area,
                   !.center = <<2 * new_x + (new_r - new_x), 2 * new_y + (new_b - new_y)>>,
                   !.contours = cur.contours \o nxt.contours,
                   !.total_len = cur.total_len + nxt.total_len]

RECURSIVE MergeScan(_, _, _)
MergeScan(current_meta, rest, merged) ==
    IF rest = <<>> THEN Append(merged, current_meta)
    ELSE LET next_g == Head(rest)
         IN IF vertical_match(current_meta, next_g) /\ horizontal_match(current_meta, next_g)
            THEN MergeScan(MergeInto(current_meta, next_g), Tail(rest), merged)
            ELSE MergeScan(next_g, Tail(rest), Append(merged, current_meta))

_safely_merge_words(gs) ==
    LET candidates == SelectSeq(gs, LAMBDA g : g.area < MergeAreaThreshold)
        bypass == SelectSeq(gs, LAMBDA g : ~(g.area < MergeAreaThreshold))
        sorted_c == Sorted(candidates, [i \in 1..Len(candidates) |->
                                          <<candidates[i].y, candidates[i].x>>])
    IN IF gs = <<>> THEN <<>>
       ELSE IF candidates = <<>> THEN bypass
       ELSE MergeScan(Head(sorted_c), Tail(sorted_c), <<>>) \o bypass

----------------------------------------------------------------------------
(* DoodleVideoGeneratorV8._sort_contours_by_path: line clustering *)

SumCy(line) == SumSeq([i \in 1..Len(line) |-> line[i].center[2]])
SumH(line) == SumSeq([i \in 1..Len(line) |-> line[i].h])
SumY(line) == SumSeq([i \in 1..Len(line) |-> line[i].y])

\* abs(g_cy - l_avg_cy) < max(g_h, l_avg_h) * 0.5, multiplied by 2 * len(line)
LineMatchV8(g, line) ==
    LET n == Len(line)
        sum_cy == SumCy(line)
        sum_h == SumH(line)
    IN Abs(g.center[2] * n - sum_cy) < Max2(g.h * n, sum_h)

MicroMinHeight == 30

\* V8.1: abs(g_cy - l_avg_cy) < max(g_h, 30) * 1.5, multiplied by 2 * len(line)
LineMatchV8_1(g, line) ==
    LET n == Len(line)
        sum_cy == SumCy(line)
    IN Abs(g.center[2] * n - sum_cy) < 3 * n * Max2(g.h, MicroMinHeight)

LineMatch(variant, g, line) ==
    IF variant = "v8" THEN LineMatchV8(g, line) ELSE LineMatchV8_1(g, line)

\* One pass of "for g in y_sorted": g joins the first matching line or opens one
RECURSIVE ClusterLines(_, _, _)
ClusterLines(rest, lines, variant) ==
    IF rest = <<>> THEN lines
    ELSE LET g == Head(rest)
             hits == {idx \in 1..Len(lines) : LineMatch(variant, g, lines[idx])}
         IN IF hits # {}
            THEN LET best_line_idx == CHOOSE idx \in hits : \A o \in hits : idx <= o
                 IN ClusterLines(Tail(rest),
                                 [lines EXCEPT ![best_line_idx] = Append(@, g)], variant)
            ELSE ClusterLines(Tail(rest), Append(lines, <<g>>), variant)

RECURSIVE ProdLens(_)
ProdLens(lines) == IF lines = <<>> THEN 1 ELSE Len(Head(lines)) * ProdLens(Tail(lines))

\* Mutant: the lines are ordered, the units inside a line are left as clustered
SortLinesAndFlatten_NoLineSort(lines) ==
    LET P == ProdLens(lines)
    IN Flatten(Sorted(lines, [i \in 1..Len(lines) |->
                    << SumY(lines[i]) * (P \div Len(lines[i])) >>]))

\* lines.sort(key = average y of the line), then each line by x, flattened
SortLinesAndFlatten(lines) ==
    LET P == ProdLens(lines)
        by_y == Sorted(lines, [i \in 1..Len(lines) |->
                    << SumY(lines[i]) * (P \div Len(lines[i])) >>])
    IN Flatten([i \in 1..Len(by_y) |->
                  Sorted(by_y[i], [k \in 1..Len(by_y[i]) |-> << by_y[i][k].x >>])])

SortByPathV8(gs) ==
    LET y_sorted == Sorted(gs, [i \in 1..Len(gs) |-> << gs[i].y >>])
    IN IF gs = <<>> THEN <<>>
       ELSE SortLinesAndFlatten(ClusterLines(y_sorted, <<>>, "v8"))

----------------------------------------------------------------------------
(* DoodleVideoGeneratorV8.generate: section assignment and segment timing *)

DefaultDuration == 3

NumSections(segs) == IF segs # <<>> THEN Len(segs) ELSE 1

\* min(int(glyph_center_x / section_width), num_sections - 1)
SectionIdx(g, num_sections) ==
    Min2(((2 * g.x + g.w) * num_sections) \div (2 * new_w), num_sections - 1)

ProcessSection(g_list) == SortByPathV8(_safely_merge_words(g_list))

GlyphSections(gs, segs) ==
    LET n == NumSections(segs)
        keys == {SectionIdx(gs[i], n) : i \in 1..Len(gs)}
    IN [k \in keys |->
          ProcessSection(SelectSeq(gs, LAMBDA g : SectionIdx(g, n) = k))]

\* Mutant: every window starts at 0 (current_time is never advanced)
RECURSIVE BuildTimes_NoAdvance(_, _, _)
BuildTimes_NoAdvance(segs, seq_idx, current_time) ==
    IF segs = <<>> THEN <<>>
    ELSE << [section_idx |-> seq_idx,
             start |-> current_time,
             end |-> current_time + Get(Head(segs).duration, DefaultDuration)] >>
         \o BuildTimes_NoAdvance(Tail(segs), seq_idx + 1, current_time)

\* Mutant: the windows are handed to the sections from right to left
RECURSIVE BuildTimes_RightToLeft(_, _, _)
BuildTimes_RightToLeft(segs, seq_idx, current_time) ==
    IF segs = <<>> THEN <<>>
    ELSE LET seg_duration == Get(Head(segs).duration, DefaultDuration)
         IN << [section_idx |-> Len(segs) - 1,
                start |-> current_time,
                end |-> current_time + seg_duration] >>
            \o BuildTimes_RightToLeft(Tail(segs), seq_idx + 1, current_time + seg_duration)

RECURSIVE BuildTimes(_, _, _)
BuildTimes(segs, seq_idx, current_time) ==
    IF segs = <<>> THEN <<>>
    ELSE LET seg_duration == Get(Head(segs).duration, DefaultDuration)
         IN << [section_idx |-> seq_idx,
                start |-> current_time,
                end |-> current_time + seg_duration] >>
            \o BuildTimes(Tail(segs), seq_idx + 1, current_time + seg_duration)

SortedSegments(segs) ==
    Sorted(segs, [i \in 1..Len(segs) |-> << Get(segs[i].position, 0) >>])

SegmentTimesV8(segs) == BuildTimes(SortedSegments(segs), 0, 0)

----------------------------------------------------------------------------
(* Rasterisation of the two drawing calls on the reveal mask *)

\* cv2.drawContours(mask, [pts], -1, 255, -1): the filled polygon, its
\* interior and its closed boundary (one edge per point)
Filled(c) == {<<c.cid, "in", 0>>} \cup {<<c.cid, "edge", j>> : j \in 1..c.pts}

\* cv2.polylines(mask, [pts[:k]], False, 255, thickness) with thickness 3, 12
\* or 15: an open thick line through the first k points, k - 1 edges, each
\* with the band of the pen that lies outside the polygon
Polyline(c, k) ==
    UNION { {<<c.cid, "edge", j>>, <<c.cid, "halo", j>>} : j \in 1..(k - 1) }

FilledGlyph(glyph) == UNION {Filled(glyph.contours[i]) : i \in 1..Len(glyph.contours)}

FilledGlyphs(units) == UNION {FilledGlyph(units[i]) : i \in 1..Len(units)}

\* reveal_mask[:] = 255: every pixel of the canvas, ink or not
Background == <<0, "bg", 0>>
AllPixels(gs) ==
    {Background} \cup
    UNION { Filled(gs[i].contours[1]) \cup Polyline(gs[i].contours[1], gs[i].contours[1].pts + 1)
            : i \in 1..Len(gs) }

----------------------------------------------------------------------------
(* DoodleVideoGeneratorV8.generate.make_frame *)

\* The contour loop of the active glyph.  The glyph's target length is
\* total_len * num / den (num / den the intra-glyph progress); every
\* comparison is multiplied by den.
RECURSIVE ActiveContours(_, _, _, _)
ActiveContours(cs, current_len, target_num, den) ==
    IF cs = <<>> THEN {}
    ELSE LET c == Head(cs)
             needed_num == target_num - current_len * den
             pts_to_draw == (needed_num * c.pts) \div (c.len * den)
         IN IF (current_len + c.len) * den <= target_num
            THEN Filled(c) \cup ActiveContours(Tail(cs), current_len + c.len, target_num, den)
            ELSE IF needed_num > 0 /\ c.len > 0 /\ pts_to_draw > 0
                 THEN Polyline(c, pts_to_draw)
                 ELSE {}

ProgressiveDrawV8(units, seg_start, seg_end, time) ==
    LET total_glyphs == Len(units)
        den == seg_end - seg_start
        num == total_glyphs * (time - seg_start)
        current_glyph_idx == num \div den
        intra_num == num % den
        completed == FilledGlyphs(SubSeq(units, 1, current_glyph_idx))
        active == IF current_glyph_idx < total_glyphs
                  THEN LET active_glyph == units[current_glyph_idx + 1]
                       IN ActiveContours(active_glyph.contours, 0,
                                         active_glyph.total_len * intra_num, den)
                  ELSE {}
    IN completed \cup active

\* Mutant: a finished segment is drawn as outlines (thickness 2), not filled
SegmentMaskV8_OutlineWhenDone(sections, seg_info, time) ==
    IF seg_info.section_idx \notin DOMAIN sections THEN {}
    ELSE LET glyphs_in_section == sections[seg_info.section_idx]
         IN IF glyphs_in_section = <<>> THEN {}
            ELSE IF time < seg_info.start THEN {}
            ELSE IF time >= seg_info.end
                 THEN UNION {Polyline(c, c.pts + 1) : c \in
                        UNION { {glyphs_in_section[u].contours[j] :
                                    j \in 1..Len(glyphs_in_section[u].contours)} :
                                u \in 1..Len(glyphs_in_section) } }
            ELSE ProgressiveDrawV8(glyphs_in_section, seg_info.start, seg_info.end, time)

\* Mutant: a segment counts as finished only after its end
BranchV8_LateFill(sections, seg_info, time) ==
    IF seg_info.section_idx \notin DOMAIN sections THEN "skip"
    ELSE IF sections[seg_info.section_idx] = <<>> THEN "skip"
    ELSE IF time < seg_info.start THEN "skip"
    ELSE IF time > seg_info.end THEN "fill"
    ELSE "progress"

\* The branch make_frame takes for one segment: "skip" (continue), "fill"
\* (t >= seg_end) or "progress" (the else branch, which divides)
BranchV8(sections, seg_info, time) ==
    IF seg_info.section_idx \notin DOMAIN sections THEN "skip"
    ELSE IF sections[seg_info.section_idx] = <<>> THEN "skip"
    ELSE IF time < seg_info.start THEN "skip"
    ELSE IF time >= seg_info.end THEN "fill"
    ELSE "progress"

SegmentMaskV8(sections, seg_info, time) ==
    LET branch == BranchV8(sections, seg_info, time)
    IN IF branch = "skip" THEN {}
       ELSE LET glyphs_in_section == sections[seg_info.section_idx]
            IN IF branch = "fill" THEN FilledGlyphs(glyphs_in_section)
               ELSE ProgressiveDrawV8(glyphs_in_section, seg_info.start, seg_info.end, time)

make_frame_V8(gs, segs, sections, times, time) ==
    IF segs # <<>> /\ times # <<>>
    THEN UNION {SegmentMaskV8(sections, times[i], time) : i \in 1..Len(times)}
    ELSE AllPixels(gs)

----------------------------------------------------------------------------
(* The run of one DoodleVideoGeneratorV8: generate(), then the encoder      *)
(* querying make_frame at any time of the clip, in any order                *)

Times == 0..MaxT

InitV8 ==
    /\ pc = "init"
    /\ WsIdle
    /\ VoicesIdle
    /\ LookupIdle
    /\ BeatIdle
    /\ IoIdle
    /\ glyphs \in GlyphLists
    /\ segments \in SegmentLists
    /\ labels = <<>> /\ duration = 0
    /\ ordered_glyphs = <<>> /\ segment_glyphs = <<>>
    /\ glyph_sections = <<>>
    /\ segment_times = <<>>
    /\ t = -1
    /\ reveal_mask = {}

GenerateV8 ==
    /\ pc = "init"
    /\ glyph_sections' = GlyphSections(glyphs, segments)
    /\ segment_times' = SegmentTimesV8(segments)
    /\ pc' = "render"
    /\ UNCHANGED <<inputs, ws, voices, lookup, beat, io, ordered_glyphs, segment_glyphs, t, reveal_mask>>

MakeFrameV8(time) ==
    /\ pc = "render"
    /\ t' = time
    /\ reveal_mask' = make_frame_V8(glyphs, segments, glyph_sections, segment_times, time)
    /\ UNCHANGED <<pc, inputs, ws, voices, lookup, beat, io, ordered_glyphs, segment_glyphs, glyph_sections, segment_times>>

NextV8 ==
    \/ GenerateV8
    \/ \E time \in Times : MakeFrameV8(time)

Spec == InitV8 /\ [][NextV8]_vars

----------------------------------------------------------------------------
(* Claims on DoodleVideoGeneratorV8 *)

\* Where a contour of the detected glyphs sits in the draw sequences:
\* <<section, unit position, contour position>>
Occurrences(sections, cid) ==
    { o \in UNION { UNION { { <<k, u, j>> : j \in 1..Len(sections[k][u].contours) }
                            : u \in 1..Len(sections[k]) }
                    : k \in DOMAIN sections } :
        sections[o[1]][o[2]].contours[o[3]].cid = cid }

AllOccurrences(sections) ==
    UNION { UNION { { <<k, u, j>> : j \in 1..Len(sections[k][u].contours) }
                    : u \in 1..Len(sections[k]) }
            : k \in DOMAIN sections }

\* C1: after section assignment, word-merge and sequencing, the draw
\* sequences of all sections together hold every contour of every detected
\* glyph exactly once, unchanged, and nothing else.
C1_CoverageComplete ==
    pc = "render" =>
        /\ \A i \in 1..Len(glyphs) :
              /\ Cardinality(Occurrences(glyph_sections, glyphs[i].id)) = 1
              /\ \A o \in Occurrences(glyph_sections, glyphs[i].id) :
                    glyph_sections[o[1]][o[2]].contours[o[3]] = glyphs[i].contours[1]
        /\ Cardinality(AllOccurrences(glyph_sections)) = Len(glyphs)

\* C1 witness: three glyphs over two sections, two of them merged into a word
C1_Witness ==
    /\ pc = "render"
    /\ Len(glyphs) = 3
    /\ Cardinality(DOMAIN glyph_sections) = 2
    /\ \E k \in DOMAIN glyph_sections : \E u \in 1..Len(glyph_sections[k]) :
          Len(glyph_sections[k][u].contours) = 2

\* C2 (as stated): the coverage mask of a later query time contains the
\* coverage mask of an earlier one.
C2_MonotonicMask ==
    [][(pc = "render" /\ t >= 0 /\ t' > t) => reveal_mask \subseteq reveal_mask']_vars

\* C2 counterexample scene: a glyph traced with the thick pen at one query
\* time and filled at a later one
C2_StrokeThenFill ==
    /\ pc = "render" /\ t >= 0
    /\ \E p \in reveal_mask : p[2] = "halo"

\* The contours of the units of a section
SectionContours(units) ==
    UNION { {units[u].contours[j] : j \in 1..Len(units[u].contours)} : u \in 1..Len(units) }

\* A contour shows filled and nothing but filled: interior and every edge
\* are set, no pen band outside the polygon is
ShownFilled(mask, c) ==
    /\ <<c.cid, "in", 0>> \in mask
    /\ \A j \in 1..c.pts : <<c.cid, "edge", j>> \in mask
    /\ \A p \in mask : p[1] = c.cid => p[2] # "halo"

FullyDrawnUnits(mask, units) ==
    {u \in 1..Len(units) :
        \A j \in 1..Len(units[u].contours) : ShownFilled(mask, units[u].contours[j])}

HasUnits(seg_info) ==
    /\ seg_info.section_idx \in DOMAIN glyph_sections
    /\ glyph_sections[seg_info.section_idx] # <<>>

\* C3: for every segment with at least one unit, at every query time
\* t >= seg.end every unit of the segment shows filled; before seg.end the
\* number of units drawn fully is at most the number of units.
C3_SegmentTimingExact ==
    (pc = "render" /\ t >= 0) =>
        \A i \in 1..Len(segment_times) :
            HasUnits(segment_times[i]) =>
                LET units == glyph_sections[segment_times[i].section_idx]
                IN /\ t >= segment_times[i].end =>
                        \A c \in SectionContours(units) : ShownFilled(reveal_mask, c)
                   /\ t < segment_times[i].end =>
                        Cardinality(FullyDrawnUnits(reveal_mask, units)) <= Len(units)

\* C3 witness: the query time is exactly the end of a segment that holds a
\* merged unit and another unit, and a later segment with units is not done
C3_Witness ==
    /\ pc = "render" /\ Len(segment_times) = 2
    /\ t = segment_times[1].end
    /\ HasUnits(segment_times[1]) /\ HasUnits(segment_times[2])
    /\ Len(glyph_sections[segment_times[1].section_idx]) = 2
    /\ \A c \in SectionContours(glyph_sections[segment_times[1].section_idx]) :
          ShownFilled(reveal_mask, c)
    /\ \E c \in SectionContours(glyph_sections[segment_times[2].section_idx]) :
          ~ShownFilled(reveal_mask, c)

\* C4: the segment windows tile the timeline: the first starts at 0, each
\* starts where the previous one ends, and each is as long as its segment's
\* duration (3 when the segment has none), one window per segment.
C4_TimelinePartition ==
    pc = "render" =>
        /\ Len(segment_times) = Len(segments)
        /\ segments # <<>> => segment_times[1].start = 0
        /\ \A i \in 2..Len(segment_times) :
              segment_times[i].start = segment_times[i - 1].end
        /\ \A i \in 1..Len(segment_times) :
              LET dur == SortedSegments(segments)[i].duration
              IN segment_times[i].end - segment_times[i].start =
                    (IF dur = <<>> THEN 3 ELSE dur[1])

\* C4 witness: two segments, reordered by position, one without a duration
C4_Witness ==
    /\ pc = "render" /\ Len(segments) = 2
    /\ segments[1].position = <<1>> /\ segments[2].position = <<>>
    /\ segments[1].duration = <<2>> /\ segments[2].duration = <<>>
    /\ segment_times[1].end = 3
    /\ segment_times[2].start = 3 /\ segment_times[2].end = 5

----------------------------------------------------------------------------
(* The sequencing strategies of the variants, as pure functions of a unit   *)
(* list                                                                     *)

height == 1080
\* Height of the resized image for a source of the canvas' aspect ratio
new_h == height

\* Squared distance of two centres (both stored doubled)
DistSq(a, b) ==
    (a.center[1] - b.center[1]) * (a.center[1] - b.center[1])
    + (a.center[2] - b.center[2]) * (a.center[2] - b.center[2])

\* Mutant: pop() without the index removes the last element
RemoveAt_PopsLast(seq, i) == SubSeq(seq, 1, Len(seq) - 1)

\* list.pop(i): the list without its i-th element
RemoveAt(seq, i) == SubSeq(seq, 1, i - 1) \o SubSeq(seq, i + 1, Len(seq))

\* Mutant: the distance leaves out the vertical term
RECURSIVE NearestLoop_Horizontal(_, _, _)
NearestLoop_Horizontal(current, unvisited, ordered) ==
    IF unvisited = <<>> THEN ordered
    ELSE LET dx(i) == Abs(current.center[1] - unvisited[i].center[1])
             best_idx == CHOOSE i \in 1..Len(unvisited) :
                            /\ \A j \in 1..Len(unvisited) : dx(i) <= dx(j)
                            /\ \A j \in 1..(i - 1) : dx(j) > dx(i)
             next_glyph == unvisited[best_idx]
         IN NearestLoop_Horizontal(next_glyph, RemoveAt(unvisited, best_idx),
                                   Append(ordered, next_glyph))

\* V7.3: greedy nearest neighbour, the first of the closest candidates
RECURSIVE NearestLoop(_, _, _)
NearestLoop(current, unvisited, ordered) ==
    IF unvisited = <<>> THEN ordered
    ELSE LET best_idx == CHOOSE i \in 1..Len(unvisited) :
                            /\ \A j \in 1..Len(unvisited) :
                                  DistSq(current, unvisited[i]) <= DistSq(current, unvisited[j])
                            /\ \A j \in 1..(i - 1) :
                                  DistSq(current, unvisited[j]) > DistSq(current, unvisited[i])
             next_glyph == unvisited[best_idx]
         IN NearestLoop(next_glyph, RemoveAt(unvisited, best_idx), Append(ordered, next_glyph))

\* max(range(len(glyphs)), key=area): the first index of the largest area
StartIdx(gs) ==
    CHOOSE i \in 1..Len(gs) :
        /\ \A j \in 1..Len(gs) : gs[j].area <= gs[i].area
        /\ \A j \in 1..(i - 1) : gs[j].area < gs[i].area

SortByPathV7_3(gs) ==
    IF gs = <<>> THEN <<>>
    ELSE NearestLoop(gs[StartIdx(gs)], RemoveAt(gs, StartIdx(gs)), <<gs[StartIdx(gs)]>>)

MACRO_THRESHOLD == 5000

\* V8.1: large units by descending area, then the small ones in reading order
SortByPathV8_1(gs) ==
    LET macro_objs == SelectSeq(gs, LAMBDA g : g.area >= MACRO_THRESHOLD)
        micro_objs == SelectSeq(gs, LAMBDA g : ~(g.area >= MACRO_THRESHOLD))
        macro_sorted == Sorted(macro_objs, [i \in 1..Len(macro_objs) |-> << -macro_objs[i].area >>])
        y_sorted == Sorted(micro_objs, [i \in 1..Len(micro_objs) |-> << micro_objs[i].y >>])
    IN IF gs = <<>> THEN <<>>
       ELSE macro_sorted \o SortLinesAndFlatten(ClusterLines(y_sorted, <<>>, "v8_1"))

MinRowHeight == 30
MinGlyphHeight == 5
RowDivisor == 15

\* Twice np.median(heights)
Median2(hs) ==
    LET srt == Sorted(hs, [i \in 1..Len(hs) |-> << hs[i] >>])
        n == Len(hs)
    IN IF n % 2 = 1 THEN 2 * srt[(n + 1) \div 2]
       ELSE srt[n \div 2] + srt[n \div 2 + 1]

\* V5: row_height = max(30, int(median_h * 2.5)), or max(30, img_height // 15)
RowHeight(gs, img_height) ==
    LET all_h == [i \in 1..Len(gs) |-> gs[i].h]
        heights == SelectSeq(all_h, LAMBDA h : h > MinGlyphHeight)
    IN IF heights # <<>>
       THEN Max2(MinRowHeight, (Median2(heights) * 5) \div 4)
       ELSE Max2(MinRowHeight, img_height \div RowDivisor)

RowIdx(g, row_height) == (g.y + g.h \div 2) \div row_height

\* V5: rows by row index, each row left to right
_cluster_into_grid_rows(gs, img_height) ==
    LET row_height == RowHeight(gs, img_height)
        row_ids == {RowIdx(gs[i], row_height) : i \in 1..Len(gs)}
        sorted_row_indices == SortIdx([r \in row_ids |-> <<r>>], row_ids)
    IN IF gs = <<>> THEN <<>>
       ELSE [k \in 1..Len(sorted_row_indices) |->
               LET row_glyphs == SelectSeq(gs, LAMBDA g :
                                    RowIdx(g, row_height) = sorted_row_indices[k])
               IN Sorted(row_glyphs, [i \in 1..Len(row_glyphs) |-> << row_glyphs[i].x >>])]

\* V5 generate: the rows flattened into one ordered list
OrderedGlyphsV5(gs) == Flatten(_cluster_into_grid_rows(gs, new_h))

\* Units a sequencing stage can be handed: the components and two larger blocks
SortGeoms ==
    Geoms \cup
    { [x |-> 900, y |-> 380, w |-> 100, h |-> 80,  area |-> 6000,  len |-> 360,  npts |-> 4],
      [x |-> 20,  y |-> 35,  w |-> 4,   h |-> 4,   area |-> 12,    len |-> 12,   npts |-> 2],
      [x |-> 10,  y |-> 300, w |-> 40,  h |-> 40,  area |-> 100,   len |-> 160,  npts |-> 3],
      [x |-> 200, y |-> 0,   w |-> 30,  h |-> 100, area |-> 900,   len |-> 260,  npts |-> 4],
      [x |-> 300, y |-> 40,  w |-> 10,  h |-> 10,  area |-> 50,    len |-> 40,   npts |-> 3],
      [x |-> 250, y |-> 60,  w |-> 20,  h |-> 20,  area |-> 120,   len |-> 80,   npts |-> 3] }

SortLists ==
    UNION { { [i \in 1..n |-> Glyph(i, f[i])] :
                f \in { f \in [1..n -> SortGeoms] :
                          \A i, j \in 1..n : i # j => f[i] # f[j] } } :
            n \in 0..MaxGlyphs }

InitSort ==
    /\ pc = "init"
    /\ WsIdle
    /\ VoicesIdle
    /\ LookupIdle
    /\ BeatIdle
    /\ IoIdle
    /\ glyphs \in SortLists
    /\ segments = <<>> /\ labels = <<>> /\ duration = 0
    /\ ordered_glyphs = <<>> /\ segment_glyphs = <<>>
    /\ glyph_sections = <<>> /\ segment_times = <<>>
    /\ t = -1 /\ reveal_mask = {}

SortDone(stage, result) ==
    /\ pc = "init"
    /\ pc' = stage
    /\ ordered_glyphs' = result
    /\ UNCHANGED <<inputs, ws, voices, lookup, beat, io, segment_glyphs, glyph_sections, segment_times, t, reveal_mask>>

SortNearestNeighbour == SortDone("nearest", SortByPathV7_3(glyphs))
SortReadingOrder == SortDone("reading", SortByPathV8(glyphs))
SortMacroMicro == SortDone("macro_micro", SortByPathV8_1(glyphs))
SortGridRows == SortDone("grid_rows", OrderedGlyphsV5(glyphs))

NextSort ==
    \/ SortNearestNeighbour
    \/ SortReadingOrder
    \/ SortMacroMicro
    \/ SortGridRows

SpecSort == InitSort /\ [][NextSort]_vars

\* C5: each sequencing strategy (nearest neighbour, line clustering,
\* macro/micro, grid rows) returns every input unit exactly once: same
\* length, no duplicate, none missing.
C5_SortIsPermutation ==
    pc \in {"nearest", "reading", "macro_micro", "grid_rows"} =>
        /\ Len(ordered_glyphs) = Len(glyphs)
        /\ \A i \in 1..Len(glyphs) :
              Cardinality({k \in 1..Len(ordered_glyphs) : ordered_glyphs[k] = glyphs[i]}) = 1

\* C5 witness: the nearest-neighbour sort has reordered three units
C5_Witness ==
    /\ pc = "nearest"
    /\ Len(glyphs) = 3
    /\ ordered_glyphs[1] = glyphs[3]
    /\ ordered_glyphs[2] = glyphs[1]

----------------------------------------------------------------------------
(* DoodleVideoGeneratorV6._cluster_glyphs_by_bbox                           *)
(* Lengths are in half pixels; the bounding boxes of the input domain are   *)
(* multiples of 250 on the 0-1000 scale, so bbox / 1000 * size is exact.    *)

BboxScale == 1000

\* seg_meta entry of one segment: <<>> for None (no bbox, or an invalid
\* one), else <<[idx, rect, area, center]>>; rect and center in half pixels
SegMetaOf(i, seg, img_w, img_h) ==
    IF seg.bbox = <<>> THEN <<>>
    ELSE LET b_ymin == (seg.bbox[1] * img_h) \div BboxScale
             b_xmin == (seg.bbox[2] * img_w) \div BboxScale
             b_ymax == (seg.bbox[3] * img_h) \div BboxScale
             b_xmax == (seg.bbox[4] * img_w) \div BboxScale
         IN IF b_xmax <= b_xmin \/ b_ymax <= b_ymin THEN <<>>
            ELSE << [idx |-> i,
                     rect |-> <<2 * b_xmin, 2 * b_ymin, 2 * b_xmax, 2 * b_ymax>>,
                     area |-> (b_ymax - b_ymin) * (b_xmax - b_xmin),
                     center |-> <<b_xmin + b_xmax, b_ymin + b_ymax>>] >>

\* seg_meta, indexed like the segment list (segment i of Python at i + 1)
SegMeta(segs, img_w, img_h) ==
    [i \in 1..Len(segs) |-> SegMetaOf(i - 1, segs[i], img_w, img_h)]

\* gx = x + w / 2.0 and gy = y + h // 2.0, in half pixels
GlyphCenterV6(g) == <<2 * g.x + g.w, 2 * (g.y + g.h \div 2)>>

Contains(meta, g) ==
    LET gx == GlyphCenterV6(g)[1]
        gy == GlyphCenterV6(g)[2]
    IN /\ meta.rect[1] <= gx /\ gx <= meta.rect[3]
       /\ meta.rect[2] <= gy /\ gy <= meta.rect[4]

\* Mutant: the first containing box wins, whatever its area
BestContaining_First(g, seg_meta) ==
    LET inside == {i \in 1..Len(seg_meta) : seg_meta[i] # <<>> /\ Contains(seg_meta[i][1], g)}
    IN IF inside = {} THEN -1
       ELSE seg_meta[CHOOSE i \in inside : \A j \in inside : i <= j][1].idx

\* The scan for containing boxes: the first box of the smallest area among
\* those that contain the centre, -1 when none does
BestContaining(g, seg_meta) ==
    LET inside == {i \in 1..Len(seg_meta) : seg_meta[i] # <<>> /\ Contains(seg_meta[i][1], g)}
    IN IF inside = {} THEN -1
       ELSE seg_meta[CHOOSE i \in inside :
                        /\ \A j \in inside : seg_meta[i][1].area <= seg_meta[j][1].area
                        /\ \A j \in inside : j < i => seg_meta[j][1].area > seg_meta[i][1].area
                    ][1].idx

CenterDistSq(g, meta) ==
    LET dx == GlyphCenterV6(g)[1] - meta.center[1]
        dy == GlyphCenterV6(g)[2] - meta.center[2]
    IN dx * dx + dy * dy

\* Mutant: only the horizontal distance is compared
NearestCenter_Horizontal(g, seg_meta) ==
    LET valid == {i \in 1..Len(seg_meta) : seg_meta[i] # <<>>}
        dx(i) == Abs(GlyphCenterV6(g)[1] - seg_meta[i][1].center[1])
    IN IF valid = {} THEN 0
       ELSE seg_meta[CHOOSE i \in valid :
                        /\ \A j \in valid : dx(i) <= dx(j)
                        /\ \A j \in valid : j < i => dx(j) > dx(i)][1].idx

\* The fallback: the first valid box whose centre is nearest, segment 0 when
\* no segment has a valid box
NearestCenter(g, seg_meta) ==
    LET valid == {i \in 1..Len(seg_meta) : seg_meta[i] # <<>>}
    IN IF valid = {} THEN 0
       ELSE seg_meta[CHOOSE i \in valid :
                        /\ \A j \in valid :
                              CenterDistSq(g, seg_meta[i][1]) <= CenterDistSq(g, seg_meta[j][1])
                        /\ \A j \in valid : j < i =>
                              CenterDistSq(g, seg_meta[j][1]) > CenterDistSq(g, seg_meta[i][1])
                    ][1].idx

\* Mutant: the glyphs that no box contains are left out of every bin
_cluster_glyphs_by_bbox_NoFallback(gs, img_w, img_h, segs) ==
    IF segs = <<>> THEN [i \in {0} |-> gs]
    ELSE [i \in 0..(Len(segs) - 1) |->
            SelectSeq(gs, LAMBDA g : BestContaining(g, SegMeta(segs, img_w, img_h)) = i)]

\* The bins: the glyphs a box contains in input order, then the unassigned
\* ones in input order
_cluster_glyphs_by_bbox(gs, img_w, img_h, segs) ==
    LET seg_meta == SegMeta(segs, img_w, img_h)
    IN IF segs = <<>> THEN [i \in {0} |-> gs]
       ELSE [i \in 0..(Len(segs) - 1) |->
               SelectSeq(gs, LAMBDA g : BestContaining(g, seg_meta) = i)
               \o SelectSeq(gs, LAMBDA g : /\ BestContaining(g, seg_meta) = -1
                                           /\ NearestCenter(g, seg_meta) = i)]

\* Segment dicts of V6: no bbox, the whole image, its top-left quarter, its
\* right half, its lower-left quarter, and a box without height
SegmentDictsV6 ==
    { [bbox |-> <<>>],
      [bbox |-> <<0, 0, 1000, 1000>>],
      [bbox |-> <<0, 0, 500, 500>>],
      [bbox |-> <<0, 500, 1000, 1000>>],
      [bbox |-> <<500, 0, 1000, 500>>],
      [bbox |-> <<500, 0, 500, 1000>>] }

SegmentListsV6 == UNION { [1..n -> SegmentDictsV6] : n \in 0..MaxSegments }

InitV6 ==
    /\ pc = "init"
    /\ WsIdle
    /\ VoicesIdle
    /\ LookupIdle
    /\ BeatIdle
    /\ IoIdle
    /\ glyphs \in GlyphLists
    /\ segments \in SegmentListsV6
    /\ labels = <<>> /\ duration = 0
    /\ ordered_glyphs = <<>> /\ segment_glyphs = <<>>
    /\ glyph_sections = <<>> /\ segment_times = <<>>
    /\ t = -1 /\ reveal_mask = {}

\* segment_glyphs[idx].append raises KeyError for an index that is no bin
KeyErrorV6(gs, img_w, img_h, segs) ==
    /\ segs # <<>>
    /\ \E i \in 1..Len(gs) :
          LET seg_meta == SegMeta(segs, img_w, img_h)
              idx == IF BestContaining(gs[i], seg_meta) # -1
                     THEN BestContaining(gs[i], seg_meta)
                     ELSE NearestCenter(gs[i], seg_meta)
          IN idx \notin 0..(Len(segs) - 1)

ClusterV6 ==
    /\ pc = "init"
    /\ pc' = IF KeyErrorV6(glyphs, new_w, new_h, segments) THEN "raised" ELSE "clustered"
    /\ segment_glyphs' = _cluster_glyphs_by_bbox(glyphs, new_w, new_h, segments)
    /\ UNCHANGED <<inputs, ws, voices, lookup, beat, io, ordered_glyphs, glyph_sections, segment_times, t, reveal_mask>>

NextV6 == ClusterV6

SpecV6 == InitV6 /\ [][NextV6]_vars

\* The bins that hold a glyph: <<segment index, position in the bin>>
BinsOf(g) ==
    UNION { { <<k, j>> : j \in {j \in 1..Len(segment_glyphs[k]) : segment_glyphs[k][j] = g} }
            : k \in DOMAIN segment_glyphs }

ValidMetas == {i \in 1..Len(segments) : SegMeta(segments, new_w, new_h)[i] # <<>>}

MetaOf(i) == SegMeta(segments, new_w, new_h)[i][1]

Containing(g) == {i \in ValidMetas : Contains(MetaOf(i), g)}

C7_SmallestContainingBox ==
    (pc = "clustered" /\ segments # <<>>) =>
        \A i \in 1..Len(glyphs) :
            Containing(glyphs[i]) # {} =>
                \A b \in BinsOf(glyphs[i]) :
                    /\ (b[1] + 1) \in Containing(glyphs[i])
                    /\ \A j \in Containing(glyphs[i]) :
                          MetaOf(b[1] + 1).area <= MetaOf(j).area

\* C7 witness: the whole-image box is listed before the quarter box, and a
\* glyph inside both is in the quarter's bin
C7_Witness ==
    /\ pc = "clustered" /\ Len(segments) = 2
    /\ segments[1].bbox = <<0, 0, 1000, 1000>>
    /\ segments[2].bbox = <<0, 0, 500, 500>>
    /\ \E i \in 1..Len(glyphs) :
          /\ Containing(glyphs[i]) = {1, 2}
          /\ \E j \in 1..Len(segment_glyphs[1]) : segment_glyphs[1][j] = glyphs[i]

\* C8: a glyph whose centre lies in no valid box is put in a segment whose
\* valid box centre is nearest to the glyph centre, and in segment 0 when no
\* segment has a valid box.
C8_NearestCenterFallback ==
    (pc = "clustered" /\ segments # <<>>) =>
        \A i \in 1..Len(glyphs) :
            Containing(glyphs[i]) = {} =>
                \A b \in BinsOf(glyphs[i]) :
                    IF ValidMetas = {} THEN b[1] = 0
                    ELSE /\ (b[1] + 1) \in ValidMetas
                         /\ \A j \in ValidMetas :
                               CenterDistSq(glyphs[i], MetaOf(b[1] + 1))
                                  <= CenterDistSq(glyphs[i], MetaOf(j))

\* C8 witness: two quarter boxes with the same centre x, the nearer one
\* listed second; a glyph outside both is in the second bin
C8_Witness ==
    /\ pc = "clustered" /\ Len(segments) = 2
    /\ segments[1].bbox = <<500, 0, 1000, 500>>
    /\ segments[2].bbox = <<0, 0, 500, 500>>
    /\ \E i \in 1..Len(glyphs) :
          /\ Containing(glyphs[i]) = {}
          /\ \E j \in 1..Len(segment_glyphs[1]) : segment_glyphs[1][j] = glyphs[i]

----------------------------------------------------------------------------
(* DoodleVideoGeneratorV7._group_glyphs_spatially, identical in V7_2        *)
(* The label map of the dilated ink is an input: lab[i] is the label read   *)
(* at the clamped centre of glyph i, 0 the background of the dilated map.   *)

MaxLabels == 2

\* groups: the keys of the dict in insertion order
GroupKeys(lab) ==
    LET first == {i \in DOMAIN lab : \A j \in 1..(i - 1) : lab[j] # lab[i]}
        idx == SortIdx([i \in first |-> <<i>>], first)
    IN [k \in 1..Len(idx) |-> lab[idx[k]]]

\* groups[group_id]: the glyphs of one label in input order
GroupMembers(lab, gs, gid) ==
    LET S == {i \in DOMAIN lab : lab[i] = gid}
        idx == SortIdx([i \in S |-> <<i>>], S)
    IN [k \in 1..Len(idx) |-> gs[idx[k]]]

MinOf(S) == CHOOSE m \in S : \A n \in S : m <= n
MaxOf(S) == CHOOSE m \in S : \A n \in S : m >= n

\* One entry of meta_groups; aspect = width / (height + 1) is kept as the
\* outcome of its only use, aspect > 1.5
MetaGroup(gid, members) ==
    LET I == 1..Len(members)
        min_x == MinOf({members[i].x : i \in I})
        min_y == MinOf({members[i].y : i \in I})
        max_x == MaxOf({members[i].x + members[i].w : i \in I})
        max_y == MaxOf({members[i].y + members[i].h : i \in I})
    IN [id |-> gid, members |-> members,
        rect |-> <<min_x, min_y, max_x - min_x, max_y - min_y>>,
        wide |-> 2 * (max_x - min_x) > 3 * (max_y - min_y + 1)]

\* The groups loop: label 0 is skipped together with its members
MetaGroups(lab, gs) ==
    LET keys == SelectSeq(GroupKeys(lab), LAMBDA gid : gid # 0)
    IN [k \in 1..Len(keys) |-> MetaGroup(keys[k], GroupMembers(lab, gs, keys[k]))]

YBin == 50

sort_key(grp) == <<grp.rect[2] \div YBin, grp.rect[1]>>

\* Internal sort of a group: left to right when wide, top down otherwise
SortMembers(grp) ==
    LET members == grp.members
    IN IF grp.wide
       THEN Sorted(members, [i \in 1..Len(members) |-> << members[i].x >>])
       ELSE Sorted(members, [i \in 1..Len(members) |-> << members[i].y >>])

_group_glyphs_spatially(lab, gs) ==
    LET meta_groups == MetaGroups(lab, gs)
        sorted_groups == Sorted(meta_groups,
                                [k \in 1..Len(meta_groups) |-> sort_key(meta_groups[k])])
    IN Flatten([k \in 1..Len(sorted_groups) |-> SortMembers(sorted_groups[k])])

----------------------------------------------------------------------------
(* The global constant-speed reveal: DoodleVideoGeneratorV5 without         *)
(* segments and DoodleVideoGeneratorV7.  A progress and a target length are *)
(* fractions <<num, den>>; comparisons are cross-multiplied.                *)

AllContours(ordered) == Flatten([i \in 1..Len(ordered) |-> ordered[i].contours])

TotalPerimeter(cs) == SumSeq([j \in 1..Len(cs) |-> cs[j].len])

CumulativePerimeters(cs) == [i \in 1..Len(cs) |-> SumSeq([j \in 1..i |-> cs[j].len])]

\* drawContours of all_contours[j] for j in range(a, b)
FilledContours(cs, a, b) == UNION {Filled(cs[j + 1]) : j \in a..(b - 1)}

CachePoints == 20
CachePointsV7 == 30

RECURSIVE CachedMask(_, _, _)
CachedMask(cs, cache_interval, i) ==
    IF i = 0 THEN {}
    ELSE CachedMask(cs, cache_interval, i - cache_interval)
         \cup FilledContours(cs, i - cache_interval, Min2(i, Len(cs)))

\* Mutant: range(0, len(all_contours), cache_interval) stops one index early
CachedMasks_ShortRange(cs, cache_interval) ==
    [i \in {k \in 0..(Len(cs) - 1) : k % cache_interval = 0} |->
        CachedMask(cs, cache_interval, i)]

\* cached_masks: one mask per multiple of cache_interval up to len(all_contours)
CachedMasks(cs, cache_interval) ==
    [i \in {k \in 0..Len(cs) : k % cache_interval = 0} |-> CachedMask(cs, cache_interval, i)]

\* cache_interval = max(1, len(all_contours) // cache points)
CacheInterval(cs, points) == Max2(1, Len(cs) \div points)

\* The checkpoint below a boundary index
CachePoint(idx, cache_interval) == (idx \div cache_interval) * cache_interval

\* V5: the cached mask of the checkpoint if there is one, else an empty mask
\* and cache_point = 0; then the contours from cache_point up to the cutoff
CacheLookupV5(cs, cutoff) ==
    LET cache_interval == CacheInterval(cs, CachePoints)
        cached_masks == CachedMasks(cs, cache_interval)
        at == CachePoint(cutoff, cache_interval)
        cache_point == IF at \in DOMAIN cached_masks THEN at ELSE 0
        base == IF at \in DOMAIN cached_masks THEN cached_masks[at] ELSE {}
    IN base \cup FilledContours(cs, cache_point, cutoff)

\* V7: cached_masks.get(cache_idx, empty mask), then the contours from
\* cache_idx up to idx
CacheLookupV7(cs, idx) ==
    LET cache_interval == CacheInterval(cs, CachePointsV7)
        cached_masks == CachedMasks(cs, cache_interval)
        cache_idx == CachePoint(idx, cache_interval)
        base == IF cache_idx \in DOMAIN cached_masks THEN cached_masks[cache_idx] ELSE {}
    IN base \cup FilledContours(cs, cache_idx, idx)

\* The polyline of the contour under the pen, cut at the target length
PartialContour(cs, cum, idx, target, positive_only) ==
    IF idx < Len(cs)
    THEN LET cnt == cs[idx + 1]
             prev_len == IF idx > 0 THEN cum[idx] ELSE 0
             needed_num == target[1] - prev_len * target[2]
             full_len == cum[idx + 1] - prev_len
             pts == (needed_num * cnt.pts) \div (full_len * target[2])
         IN IF full_len > 0 /\ (positive_only => needed_num > 0) /\ pts > 0
            THEN Polyline(cnt, pts)
            ELSE {}
    ELSE {}

\* V5: drawing_time = min(5.0, duration * 0.4), here times five
DrawingTime5(dur) == Min2(25, 2 * dur)

ProgressV5(dur, time) ==
    IF DrawingTime5(dur) <= 0 THEN <<1, 1>>
    ELSE IF 5 * time >= DrawingTime5(dur) THEN <<1, 1>>
    ELSE <<5 * time, DrawingTime5(dur)>>

\* V5: the hand-written search, first index whose prefix sum exceeds the target
RECURSIVE BinarySearchV5(_, _, _, _)
BinarySearchV5(cum, left, right, target) ==
    IF left < right
    THEN LET mid == (left + right) \div 2
         IN IF cum[mid + 1] * target[2] <= target[1]
            THEN BinarySearchV5(cum, mid + 1, right, target)
            ELSE BinarySearchV5(cum, left, mid, target)
    ELSE left

make_frame_V5(ordered, dur, time) ==
    LET cs == AllContours(ordered)
        cum == CumulativePerimeters(cs)
        progress == ProgressV5(dur, time)
        target == <<TotalPerimeter(cs) * progress[1], progress[2]>>
        cutoff == BinarySearchV5(cum, 0, Len(cum), target)
    IN CacheLookupV5(cs, cutoff) \cup PartialContour(cs, cum, cutoff, target, TRUE)

\* V7: draw_duration = duration * 0.9, progress = min(1.0, t / draw_duration)
ProgressV7(dur, time) ==
    IF 10 * time >= 9 * dur THEN <<1, 1>> ELSE <<10 * time, 9 * dur>>

\* bisect.bisect_left: first index whose prefix sum is not below the target
RECURSIVE bisect_left(_, _, _, _)
bisect_left(a, lo, hi, x) ==
    IF lo < hi
    THEN LET mid == (lo + hi) \div 2
         IN IF a[mid + 1] * x[2] < x[1]
            THEN bisect_left(a, mid + 1, hi, x)
            ELSE bisect_left(a, lo, mid, x)
    ELSE lo

make_frame_V7(ordered, dur, time) ==
    LET cs == AllContours(ordered)
        cum == CumulativePerimeters(cs)
        progress == ProgressV7(dur, time)
        target_len == <<TotalPerimeter(cs) * progress[1], progress[2]>>
        idx == bisect_left(cum, 0, Len(cum), target_len)
    IN CacheLookupV7(cs, idx) \cup PartialContour(cs, cum, idx, target_len, FALSE)

----------------------------------------------------------------------------
(* DoodleVideoGeneratorV5 with segments: sections, windows and the reveal   *)
(* of whole glyphs                                                          *)

\* glyph_sections of V5: the ordered glyphs per section, contours and id
GlyphSectionsV5(ordered, segs) ==
    LET n == NumSections(segs)
        keys == {SectionIdx(ordered[i], n) : i \in 1..Len(ordered)}
    IN [k \in keys |->
          LET sel == SelectSeq(ordered, LAMBDA g : SectionIdx(g, n) = k)
          IN [j \in 1..Len(sel) |-> [contours |-> sel[j].contours, id |-> sel[j].id]]]

RECURSIVE BuildTimesV5(_, _, _)
BuildTimesV5(segs, seq_idx, current_time) ==
    IF segs = <<>> THEN <<>>
    ELSE LET seg_duration == Get(Head(segs).duration, DefaultDuration)
         IN << [section_idx |-> seq_idx,
                manifest_pos |-> Get(Head(segs).position, 0),
                start |-> current_time,
                end |-> current_time + seg_duration] >>
            \o BuildTimesV5(Tail(segs), seq_idx + 1, current_time + seg_duration)

SegmentTimesV5(segs) == BuildTimesV5(SortedSegments(segs), 0, 0)

\* One segment of the frame: nothing before its window, everything after
\* it, and inside it the first int(n * progress) + 1 glyphs, all filled
SegmentMaskV5(sections, seg_info, time) ==
    IF seg_info.section_idx \notin DOMAIN sections THEN {}
    ELSE LET glyphs_in_section == sections[seg_info.section_idx]
             num_glyphs_to_reveal ==
                 (Len(glyphs_in_section) * (time - seg_info.start))
                    \div (seg_info.end - seg_info.start) + 1
         IN IF glyphs_in_section = <<>> THEN {}
            ELSE IF time < seg_info.start THEN {}
            ELSE IF time >= seg_info.end THEN FilledGlyphs(glyphs_in_section)
            ELSE FilledGlyphs(SubSeq(glyphs_in_section, 1,
                                     Min2(num_glyphs_to_reveal, Len(glyphs_in_section))))

\* make_frame of V5: the segment mode, or the linear reveal without segments
make_frame_V5_modes(ordered, segs, sections, times, dur, time) ==
    IF segs # <<>> /\ times # <<>>
    THEN UNION {SegmentMaskV5(sections, times[i], time) : i \in 1..Len(times)}
    ELSE make_frame_V5(ordered, dur, time)

\* Clip lengths in seconds
Durations == {2, 10, 20}

LabelMaps(n) == [1..n -> 0..MaxLabels]

\* Two small components of one text line and a large block below them
GlobalLists ==
    { gs \in GlyphLists : \A i \in 1..Len(gs) : gs[i].x \in {0, 1010, 100} }

InitGlobal ==
    /\ pc = "init"
    /\ WsIdle
    /\ VoicesIdle
    /\ LookupIdle
    /\ BeatIdle
    /\ IoIdle
    /\ glyphs \in GlobalLists
    /\ labels \in LabelMaps(Len(glyphs))
    /\ duration \in Durations
    /\ segments = <<>>
    /\ ordered_glyphs = <<>> /\ segment_glyphs = <<>>
    /\ glyph_sections = <<>> /\ segment_times = <<>>
    /\ t = -1 /\ reveal_mask = {}

\* generate() up to the clip: the glyphs are sequenced
GenerateV5 ==
    /\ pc = "init"
    /\ pc' = "v5"
    /\ ordered_glyphs' = OrderedGlyphsV5(glyphs)
    /\ segment_times' = SegmentTimesV5(segments)
    /\ glyph_sections' = GlyphSectionsV5(OrderedGlyphsV5(glyphs), segments)
    /\ UNCHANGED <<inputs, ws, voices, lookup, beat, io, segment_glyphs, t, reveal_mask>>

GenerateV7 ==
    /\ pc = "init"
    /\ pc' = "v7"
    /\ ordered_glyphs' = _group_glyphs_spatially(labels, glyphs)
    /\ UNCHANGED <<inputs, ws, voices, lookup, beat, io, segment_glyphs, glyph_sections, segment_times, t, reveal_mask>>

\* The encoder asks for the frames of the clip, 0 <= t < duration
MakeFrameV5(time) ==
    /\ pc = "v5"
    /\ time < duration
    /\ t' = time
    /\ reveal_mask' = make_frame_V5_modes(ordered_glyphs, segments, glyph_sections,
                                          segment_times, duration, time)
    /\ UNCHANGED <<pc, inputs, ws, voices, lookup, beat, io, ordered_glyphs, segment_glyphs, glyph_sections, segment_times>>

MakeFrameV7(time) ==
    /\ pc = "v7"
    /\ time < duration
    /\ t' = time
    /\ reveal_mask' = make_frame_V7(ordered_glyphs, duration, time)
    /\ UNCHANGED <<pc, inputs, ws, voices, lookup, beat, io, ordered_glyphs, segment_glyphs, glyph_sections, segment_times>>

NextGlobal ==
    \/ GenerateV5
    \/ GenerateV7
    \/ \E time \in Times : MakeFrameV5(time)
    \/ \E time \in Times : MakeFrameV7(time)

SpecGlobal == InitGlobal /\ [][NextGlobal]_vars

\* C9: the list returned by _group_glyphs_spatially contains every input
\* glyph, also a glyph whose centre reads label 0 of the dilated map.
C9_GroupingKeepsEveryGlyph ==
    pc = "v7" =>
        \A i \in 1..Len(glyphs) :
            \E k \in 1..Len(ordered_glyphs) : ordered_glyphs[k] = glyphs[i]

\* Progress of the frame on display
ProgressShown == IF pc = "v5" THEN ProgressV5(duration, t) ELSE ProgressV7(duration, t)

\* C10: in a frame of the constant-speed reveal the contours shown filled are
\* exactly those whose cumulative length does not exceed total_perimeter x
\* progress; at progress 1 every contour is filled and none is a polyline.
C10_GlobalCompletes ==
    (pc \in {"v5", "v7"} /\ t >= 0) =>
        LET cs == AllContours(ordered_glyphs)
            cum == CumulativePerimeters(cs)
        IN /\ \A i \in 1..Len(cs) :
                 ShownFilled(reveal_mask, cs[i])
                    <=> cum[i] * ProgressShown[2] <= TotalPerimeter(cs) * ProgressShown[1]
           /\ ProgressShown = <<1, 1>> => reveal_mask = FilledContours(cs, 0, Len(cs))

\* The V5 frames alone have the property of C10
C10_HoldsForV5 == pc = "v5" => C10_GlobalCompletes

----------------------------------------------------------------------------
(* DoodleVideoGeneratorV5 run with any segment list *)

InitV5 ==
    /\ pc = "init"
    /\ WsIdle
    /\ VoicesIdle
    /\ LookupIdle
    /\ BeatIdle
    /\ IoIdle
    /\ glyphs \in GlobalLists
    /\ segments \in SegmentLists
    /\ duration \in Durations
    /\ labels = <<>>
    /\ ordered_glyphs = <<>> /\ segment_glyphs = <<>>
    /\ glyph_sections = <<>> /\ segment_times = <<>>
    /\ t = -1 /\ reveal_mask = {}

NextV5 ==
    \/ GenerateV5
    \/ \E time \in Times : MakeFrameV5(time)

SpecV5 == InitV5 /\ [][NextV5]_vars

\* The pixels of a unit that are set in a mask
UnitPixels(mask, unit) ==
    {p \in mask : \E j \in 1..Len(unit.contours) : p[1] = unit.contours[j].cid}

\* k = floor(n * (t - start) / (end - start)) of a window at time t
UnitIndexAt(seg_info) ==
    (Len(glyph_sections[seg_info.section_idx]) * (t - seg_info.start))
        \div (seg_info.end - seg_info.start)

\* The rule of the segment-synchronized reveal for the frame on display
SegmentSyncRule ==
    \A s \in 1..Len(segment_times) :
        LET seg_info == segment_times[s]
        IN (HasUnits(seg_info) /\ seg_info.start <= t /\ t < seg_info.end) =>
              LET units == glyph_sections[seg_info.section_idx]
                  k == UnitIndexAt(seg_info)
              IN /\ FullyDrawnUnits(reveal_mask, units) = 1..k
                 /\ \A u \in (k + 2)..Len(units) : UnitPixels(reveal_mask, units[u]) = {}

\* C11: inside a window, with k = floor(n (t - start) / (end - start)),
\* exactly the units 0..k-1 are drawn fully, unit k is not, and no unit
\* after k has a pixel drawn.
C11_SegmentSync ==
    (pc \in {"render", "v5"} /\ t >= 0 /\ segments # <<>>) => SegmentSyncRule

\* The V8 frames have the property of C11: this is C11_SegmentSync under Spec
C11_HoldsForV8 == pc = "render" => C11_SegmentSync

----------------------------------------------------------------------------
(* ChalkVideoGenerator.generate: the contours of the ink map, large shapes  *)
(* first, and a linear stroke reveal; drawing_duration is left at its       *)
(* default, the clip duration                                               *)

TEXT_AREA_THRESHOLD == 5000

\* sorted_contours: shapes by descending area, then text by ascending x
SortedContoursChalk(gs) ==
    LET shape_contours == SelectSeq(gs, LAMBDA c : ~(c.area < TEXT_AREA_THRESHOLD))
        text_contours == SelectSeq(gs, LAMBDA c : c.area < TEXT_AREA_THRESHOLD)
    IN Sorted(shape_contours, [i \in 1..Len(shape_contours) |-> << -shape_contours[i].area >>])
       \o Sorted(text_contours, [i \in 1..Len(text_contours) |-> << text_contours[i].x >>])

\* target_draw_time = min(3.5, duration * 0.8), here times ten
TargetDrawTime10(dur) == Min2(35, 8 * dur)

ProgressChalk(dur, time) ==
    IF TargetDrawTime10(dur) <= 0 THEN <<1, 1>>
    ELSE IF 10 * time >= TargetDrawTime10(dur) THEN <<1, 1>>
    ELSE <<10 * time, TargetDrawTime10(dur)>>

\* The contour loop of make_frame: filled while the running length fits the
\* target, then one polyline prefix, then break
RECURSIVE ChalkLoop(_, _, _)
ChalkLoop(cs, current_len, target) ==
    IF cs = <<>> THEN {}
    ELSE LET cnt == Head(cs)
             remaining_num == target[1] - current_len * target[2]
             pts_to_draw == (remaining_num * cnt.pts) \div (cnt.len * target[2])
         IN IF (current_len + cnt.len) * target[2] <= target[1]
            THEN Filled(cnt) \cup ChalkLoop(Tail(cs), current_len + cnt.len, target)
            ELSE IF pts_to_draw > 0 THEN Polyline(cnt, pts_to_draw) ELSE {}

\* Mutant: the static clip of an image without contours fades in after t = 0
make_frame_Chalk_FadeIn(ordered, dur, time) ==
    LET cs == AllContours(ordered)
        progress == ProgressChalk(dur, time)
    IN IF TotalPerimeter(cs) = 0
       THEN (IF time = 0 THEN {} ELSE AllPixels(ordered))
       ELSE ChalkLoop(cs, 0, <<TotalPerimeter(cs) * progress[1], progress[2]>>)

\* The frame function handed to VideoClip: the whole canvas when the total
\* perimeter is 0, the stroke reveal otherwise
make_frame_Chalk(ordered, dur, time) ==
    LET cs == AllContours(ordered)
        progress == ProgressChalk(dur, time)
    IN IF TotalPerimeter(cs) = 0
       THEN AllPixels(ordered)
       ELSE ChalkLoop(cs, 0, <<TotalPerimeter(cs) * progress[1], progress[2]>>)

GenerateChalk ==
    /\ pc = "init"
    /\ pc' = "chalk"
    /\ ordered_glyphs' = SortedContoursChalk(glyphs)
    /\ UNCHANGED <<inputs, ws, voices, lookup, beat, io, segment_glyphs, glyph_sections, segment_times, t, reveal_mask>>

MakeFrameChalk(time) ==
    /\ pc = "chalk"
    /\ time < duration
    /\ t' = time
    /\ reveal_mask' = make_frame_Chalk(ordered_glyphs, duration, time)
    /\ UNCHANGED <<pc, inputs, ws, voices, lookup, beat, io, ordered_glyphs, segment_glyphs, glyph_sections, segment_times>>

----------------------------------------------------------------------------
(* The frame functions of V8, V5 and the chalk generator on one input       *)

NextFrames ==
    \/ GenerateV8
    \/ \E time \in Times : MakeFrameV8(time)
    \/ GenerateV5
    \/ \E time \in Times : MakeFrameV5(time)
    \/ GenerateChalk
    \/ \E time \in Times : MakeFrameChalk(time)

SpecFrames == InitV5 /\ [][NextFrames]_vars

\* C12: with no glyph detected, with or without segments, the reveal of a
\* frame is the same at every query time: two frames of one run never differ.
C12_ZeroInkStatic ==
    [][(glyphs = <<>> /\ t >= 0 /\ t' >= 0) => reveal_mask' = reveal_mask]_vars

\* C12 witness: no glyph, two segments, a late frame of V5
C12_Witness ==
    /\ glyphs = <<>> /\ Len(segments) = 2
    /\ pc = "v5" /\ t = MaxT
    /\ reveal_mask = {}

----------------------------------------------------------------------------
(* DoodleVideoGeneratorV7_3._safely_merge_words: the strict thresholds.     *)
(* The merge branch is the one of V8.                                       *)

MergeAreaThresholdV7_3 == 8000

\* abs(cy1 - cy2) < avg_h * 0.5, centres doubled
vertical_match_V7_3(cur, nxt) ==
    2 * Abs(cur.center[2] - nxt.center[2]) < cur.h + nxt.h

\* gap < avg_h * 0.4 and gap > -(avg_h * 0.2)
horizontal_match_V7_3(cur, nxt) ==
    LET gap == nxt.x - (cur.x + cur.w)
    IN /\ 5 * gap < cur.h + nxt.h
       /\ 10 * gap > -(cur.h + nxt.h)

RECURSIVE MergeScanV7_3(_, _, _)
MergeScanV7_3(current_meta, rest, merged) ==
    IF rest = <<>> THEN Append(merged, current_meta)
    ELSE LET next_g == Head(rest)
         IN IF vertical_match_V7_3(current_meta, next_g)
               /\ horizontal_match_V7_3(current_meta, next_g)
            THEN MergeScanV7_3(MergeInto(current_meta, next_g), Tail(rest), merged)
            ELSE MergeScanV7_3(next_g, Tail(rest), Append(merged, current_meta))

_safely_merge_words_V7_3(gs) ==
    LET candidates == SelectSeq(gs, LAMBDA g : g.area < MergeAreaThresholdV7_3)
        bypass == SelectSeq(gs, LAMBDA g : ~(g.area < MergeAreaThresholdV7_3))
        sorted_c == Sorted(candidates, [i \in 1..Len(candidates) |->
                                          <<candidates[i].y, candidates[i].x>>])
    IN IF gs = <<>> THEN <<>>
       ELSE IF candidates = <<>> THEN bypass
       ELSE MergeScanV7_3(Head(sorted_c), Tail(sorted_c), <<>>) \o bypass

\* Letters of one text line, 40 high, at the gaps around both pairs of
\* thresholds from a letter at x = 0; a low and a tall letter on the same
\* centre line; a block too large to be a candidate
MergeGeoms ==
    { [x |-> px, y |-> 10, w |-> 40, h |-> 40, area |-> 100, len |-> 160, npts |-> 3] :
        px \in {0, 15, 30, 32, 45, 56, 57, 87, 88, 240, 285} }
    \cup
    { [x |-> 45,  y |-> 20,  w |-> 20,  h |-> 20,  area |-> 50,    len |-> 80,   npts |-> 3],
      [x |-> 195, y |-> 0,   w |-> 30,  h |-> 60,  area |-> 300,   len |-> 180,  npts |-> 4],
      [x |-> 100, y |-> 0,   w |-> 200, h |-> 300, area |-> 12000, len |-> 1000, npts |-> 4] }

\* Lists of n distinct components, label i at position i
MergeLists(n) ==
    { [i \in 1..n |-> Glyph(i, f[i])] :
        f \in { f \in [1..n -> MergeGeoms] : \A i, j \in 1..n : i # j => f[i] # f[j] } }

InitMerge ==
    /\ pc = "init"
    /\ WsIdle
    /\ VoicesIdle
    /\ LookupIdle
    /\ BeatIdle
    /\ IoIdle
    /\ \E n \in 0..MaxGlyphs : glyphs \in MergeLists(n)
    /\ segments = <<>> /\ labels = <<>> /\ duration = 0
    /\ ordered_glyphs = <<>> /\ segment_glyphs = <<>>
    /\ glyph_sections = <<>> /\ segment_times = <<>>
    /\ t = -1 /\ reveal_mask = {}

MergeWordsV8 == SortDone("merged_v8", _safely_merge_words(glyphs))
MergeWordsV7_3 == SortDone("merged_v7_3", _safely_merge_words_V7_3(glyphs))

NextMerge ==
    \/ MergeWordsV8
    \/ MergeWordsV7_3

SpecMerge == InitMerge /\ [][NextMerge]_vars

\* Two candidates under an area limit with the same height on one centre line
PairCase(limit) ==
    /\ Len(glyphs) = 2
    /\ glyphs[1].area < limit /\ glyphs[2].area < limit
    /\ glyphs[1].h = glyphs[2].h
    /\ glyphs[1].center[2] = glyphs[2].center[2]

\* The horizontal gap between the boxes of the pair, left box to right box
PairGap ==
    IF glyphs[1].x <= glyphs[2].x
    THEN glyphs[2].x - (glyphs[1].x + glyphs[1].w)
    ELSE glyphs[1].x - (glyphs[2].x + glyphs[2].w)

C13_Example ==
    (pc \in {"merged_v7_3", "merged_v8"} /\ PairCase(8000) /\ glyphs[1].h = 40) =>
        /\ PairGap = 5 => Len(ordered_glyphs) = 1
        /\ PairGap = 200 => Len(ordered_glyphs) = 2

\* The input glyphs merged into a unit, in the order of the merge scan
MembersOf(unit) ==
    LET ids == {unit.contours[j].cid : j \in 1..Len(unit.contours)}
        by_yx == Sorted(glyphs, [i \in 1..Len(glyphs) |-> <<glyphs[i].y, glyphs[i].x>>])
    IN SelectSeq(by_yx, LAMBDA g : g.id \in ids)

\* C14: every unit returned by the V8 merge has the minimal box around the
\* boxes of its members, the sums of their areas and lengths, the centre of
\* that box, and their contour lists concatenated.
C14_MergedUnitInvariant ==
    pc = "merged_v8" =>
        \A u \in 1..Len(ordered_glyphs) :
            LET unit == ordered_glyphs[u]
                members == MembersOf(unit)
                I == 1..Len(members)
            IN /\ members # <<>>
               /\ unit.x = MinOf({members[i].x : i \in I})
               /\ unit.y = MinOf({members[i].y : i \in I})
               /\ unit.x + unit.w = MaxOf({members[i].x + members[i].w : i \in I})
               /\ unit.y + unit.h = MaxOf({members[i].y + members[i].h : i \in I})
               /\ unit.area = SumSeq([i \in I |-> members[i].area])
               /\ unit.total_len = SumSeq([i \in I |-> members[i].total_len])
               /\ unit.center = <<2 * unit.x + unit.w, 2 * unit.y + unit.h>>
               /\ unit.contours = Flatten([i \in I |-> members[i].contours])

\* C14 witness: three glyphs merged into one unit taller than a letter
C14_Witness ==
    /\ pc = "merged_v8"
    /\ \E u \in 1..Len(ordered_glyphs) :
          /\ Len(ordered_glyphs[u].contours) = 3
          /\ ordered_glyphs[u].h = 60
          /\ ordered_glyphs[u].y = 0

\* Some pixel of some unit of section j is set in the frame on display
SectionStarted(j) ==
    \E u \in 1..Len(glyph_sections[j]) : UnitPixels(reveal_mask, glyph_sections[j][u]) # {}

SectionComplete(i) ==
    FullyDrawnUnits(reveal_mask, glyph_sections[i]) = 1..Len(glyph_sections[i])

\* C15: with segments, section j is revealed in window j: while t is before
\* the start of window j section j shows nothing, and once any unit of
\* section j shows, every unit of every section i < j is fully drawn.
C15_SectionsInOrder ==
    (pc = "render" /\ t >= 0 /\ segments # <<>>) =>
        \A j \in DOMAIN glyph_sections :
            /\ t < segment_times[j + 1].start => ~SectionStarted(j)
            /\ SectionStarted(j) =>
                  \A i \in DOMAIN glyph_sections : i < j => SectionComplete(i)

\* C15 witness: the right section is under the pen and the left one is done
C15_Witness ==
    /\ pc = "render" /\ t >= 0 /\ Len(segments) = 2
    /\ DOMAIN glyph_sections = {0, 1}
    /\ SectionStarted(1) /\ ~SectionComplete(1)
    /\ SectionComplete(0)

----------------------------------------------------------------------------
(* Repeated runs of the grouping and sequencing stages.  The order in       *)
(* which glyph_sections.items() hands out the sections is left open.        *)

\* glyph_sections after the assignment loop: the glyphs of each section in
\* input order
RawSections(gs, segs) ==
    LET n == NumSections(segs)
        keys == {SectionIdx(gs[i], n) : i \in 1..Len(gs)}
    IN [k \in keys |-> SelectSeq(gs, LAMBDA g : SectionIdx(g, n) = k)]

\* The orders in which a dict with these keys can be iterated
ItemsOrders(keys) ==
    {order \in [1..Cardinality(keys) -> keys] :
        \A i, j \in 1..Cardinality(keys) : i # j => order[i] # order[j]}

\* Mutant: the loop leaves after the first section it is handed
RECURSIVE ProcessSections_FirstOnly(_, _)
ProcessSections_FirstOnly(sections, order) ==
    IF order = <<>> THEN sections
    ELSE [sections EXCEPT ![Head(order)] = ProcessSection(@)]

\* The section loop: glyph_sections[sec_idx] = sorted(merged(g_list))
RECURSIVE ProcessSections(_, _)
ProcessSections(sections, order) ==
    IF order = <<>> THEN sections
    ELSE ProcessSections([sections EXCEPT ![Head(order)] = ProcessSection(@)], Tail(order))

\* generate() of V8 on a fresh or an already used generator
RunV8(order) ==
    /\ pc \in {"init", "render"}
    /\ glyph_sections' = ProcessSections(RawSections(glyphs, segments), order)
    /\ segment_times' = SegmentTimesV8(segments)
    /\ pc' = "render"
    /\ UNCHANGED <<inputs, ws, voices, lookup, beat, io, ordered_glyphs, segment_glyphs, t, reveal_mask>>

\* The nearest-neighbour sort of V7.3 on the same list, once or again
RunV7_3 ==
    /\ pc \in {"init", "nearest"}
    /\ ordered_glyphs' = SortByPathV7_3(glyphs)
    /\ pc' = "nearest"
    /\ UNCHANGED <<inputs, ws, voices, lookup, beat, io, segment_glyphs, glyph_sections, segment_times, t, reveal_mask>>

NextRuns ==
    \/ \E order \in ItemsOrders({SectionIdx(glyphs[i], NumSections(segments)) :
                                    i \in 1..Len(glyphs)}) : RunV8(order)
    \/ RunV7_3

SpecRuns == InitV8 /\ [][NextRuns]_vars

ImreadCalls(img) == IF img = "missing" THEN 0 ELSE 1

\* Mutant: an image that does not decode is replaced by a blank canvas
ImageErrorV8_Tolerant(img) ==
    IF img = "missing" THEN "FileNotFoundError" ELSE ""

\* What loading raises in V8: the explicit FileNotFoundError, or the
\* AttributeError of original_img.shape on the None that imread returned
ImageErrorV8(img) ==
    IF img = "missing" THEN "FileNotFoundError"
    ELSE IF img = "undecodable" THEN "AttributeError"
    ELSE ""

\* What loading raises in V5: both cases are tested and raised explicitly
ImageErrorV5(img) ==
    IF img = "missing" THEN "FileNotFoundError"
    ELSE IF img = "undecodable" THEN "ValueError"
    ELSE ""

\* Images with at most one glyph, for the runs that follow the files
IoGlyphLists == { gs \in GlobalLists : Len(gs) <= 1 }

InitIO ==
    /\ pc = "init"
    /\ WsIdle
    /\ VoicesIdle
    /\ LookupIdle
    /\ BeatIdle
    /\ image \in {"ok", "missing", "undecodable"}
    /\ output = "absent" /\ raised = "" /\ reads = 0
    /\ glyphs \in IF image = "ok" THEN IoGlyphLists ELSE {<<>>}
    /\ segments \in SegmentLists
    /\ duration \in Durations
    /\ labels = <<>>
    /\ ordered_glyphs = <<>> /\ segment_glyphs = <<>>
    /\ glyph_sections = <<>> /\ segment_times = <<>>
    /\ t = -1 /\ reveal_mask = {}

\* generate() of V8 up to the construction of the clip
LoadV8 ==
    /\ pc = "init"
    /\ reads' = reads + ImreadCalls(image)
    /\ raised' = ImageErrorV8(image)
    /\ IF ImageErrorV8(image) # ""
       THEN /\ pc' = "raised"
            /\ UNCHANGED <<glyph_sections, segment_times>>
       ELSE /\ pc' = "built_v8"
            /\ glyph_sections' = GlyphSections(glyphs, segments)
            /\ segment_times' = SegmentTimesV8(segments)
    /\ UNCHANGED <<inputs, ws, voices, lookup, beat, image, output, ordered_glyphs, segment_glyphs, t, reveal_mask>>

\* generate() of V5 up to the construction of the clip
LoadV5 ==
    /\ pc = "init"
    /\ reads' = reads + ImreadCalls(image)
    /\ raised' = ImageErrorV5(image)
    /\ IF ImageErrorV5(image) # ""
       THEN /\ pc' = "raised"
            /\ UNCHANGED <<ordered_glyphs, glyph_sections, segment_times>>
       ELSE /\ pc' = "built_v5"
            /\ ordered_glyphs' = OrderedGlyphsV5(glyphs)
            /\ segment_times' = SegmentTimesV5(segments)
            /\ glyph_sections' = GlyphSectionsV5(OrderedGlyphsV5(glyphs), segments)
    /\ UNCHANGED <<inputs, ws, voices, lookup, beat, image, output, segment_glyphs, t, reveal_mask>>

\* write_videofile starts the encoder, which creates the file at output_path
OpenOutput ==
    /\ pc \in {"built_v8", "built_v5"}
    /\ pc' = IF pc = "built_v8" THEN "writing_v8" ELSE "writing_v5"
    /\ output' = "partial"
    /\ UNCHANGED <<inputs, ws, voices, lookup, beat, image, raised, reads, ordered_glyphs, segment_glyphs,
                   glyph_sections, segment_times, t, reveal_mask>>

\* Number of frames of the clip, one for each second below the duration
FrameCount == Min2(duration, MaxT + 1)

\* The encoder asks for the next frame and appends it to the file
WriteFrame ==
    /\ pc \in {"writing_v8", "writing_v5"}
    /\ t + 1 < FrameCount
    /\ t' = t + 1
    /\ reveal_mask' =
         IF pc = "writing_v8"
         THEN make_frame_V8(glyphs, segments, glyph_sections, segment_times, t + 1)
         ELSE make_frame_V5_modes(ordered_glyphs, segments, glyph_sections,
                                  segment_times, duration, t + 1)
    /\ UNCHANGED <<pc, inputs, ws, voices, lookup, beat, io, ordered_glyphs, segment_glyphs, glyph_sections, segment_times>>

\* The encoder has taken the last frame and finalises the file
CloseOutput ==
    /\ pc \in {"writing_v8", "writing_v5"}
    /\ t + 1 = FrameCount
    /\ pc' = "done"
    /\ output' = "complete"
    /\ UNCHANGED <<inputs, ws, voices, lookup, beat, image, raised, reads, ordered_glyphs, segment_glyphs,
                   glyph_sections, segment_times, t, reveal_mask>>

\* The encoder fails while the file is open: write_videofile raises, and
\* neither generate() nor process_video_request removes what was written
EncoderFails ==
    /\ pc \in {"writing_v8", "writing_v5"}
    /\ pc' = "raised"
    /\ raised' = "IOError"
    /\ UNCHANGED <<inputs, ws, voices, lookup, beat, image, output, reads, ordered_glyphs, segment_glyphs,
                   glyph_sections, segment_times, t, reveal_mask>>

NextIO ==
    \/ LoadV8
    \/ LoadV5
    \/ OpenOutput
    \/ WriteFrame
    \/ CloseOutput
    \/ EncoderFails

SpecIO == InitIO /\ [][NextIO]_vars

\* C17: when the image is missing or does not decode, generate() ends by
\* raising, with no frame computed, no output file opened and the image
\* read at most once.
C17_InputErrorsFatal ==
    (image # "ok" /\ pc # "init") =>
        /\ pc = "raised" /\ raised # ""
        /\ t = -1 /\ reveal_mask = {}
        /\ output = "absent"
        /\ reads <= 1

\* C17 witness: an image that was read once, did not decode, and ended
\* generate() of V8 with an exception
C17_Witness ==
    /\ image = "undecodable" /\ pc = "raised"
    /\ raised = "AttributeError" /\ reads = 1

\* C18: once the encoder has failed, the file at output_path is absent or
\* is a complete clip.
C18_NoPartialFile ==
    raised = "IOError" => output \in {"absent", "complete"}

\* ------------------------------------------------------------------------
\* Pen order of the nearest-neighbour sort
\* ------------------------------------------------------------------------

\* C19: the order of the nearest-neighbour sort starts with a unit of the
\* largest area, and every later unit is, among the units not placed before
\* it, one whose centre is closest to the centre of its predecessor.
C19_NearestNeighbourOrder ==
    (pc = "nearest" /\ glyphs # <<>>) =>
        /\ \A i \in 1..Len(glyphs) : glyphs[i].area <= ordered_glyphs[1].area
        /\ \A k \in 2..Len(ordered_glyphs) : \A m \in k..Len(ordered_glyphs) :
              DistSq(ordered_glyphs[k - 1], ordered_glyphs[k])
                  <= DistSq(ordered_glyphs[k - 1], ordered_glyphs[m])

\* C19 witness: three units, the start is not the first of the input, the
\* unit after it is strictly closer to it than the last one, although the
\* last one is the closer of the two horizontally
C19_Witness ==
    /\ pc = "nearest" /\ Len(ordered_glyphs) = 3
    /\ ordered_glyphs[1] # glyphs[1]
    /\ DistSq(ordered_glyphs[1], ordered_glyphs[2]) < DistSq(ordered_glyphs[1], ordered_glyphs[3])
    /\ Abs(ordered_glyphs[1].center[1] - ordered_glyphs[3].center[1])
          < Abs(ordered_glyphs[1].center[1] - ordered_glyphs[2].center[1])

\* ------------------------------------------------------------------------
\* Macro/micro order of V8.1
\* ------------------------------------------------------------------------

\* The lines into which V8.1 clusters the small units of a glyph list
MicroLines(gs) ==
    LET micro_objs == SelectSeq(gs, LAMBDA g : g.area < MACRO_THRESHOLD)
    IN ClusterLines(Sorted(micro_objs, [i \in 1..Len(micro_objs) |-> << micro_objs[i].y >>]),
                    <<>>, "v8_1")

\* The line of a small unit
LineOf(g, lines) == lines[CHOOSE i \in 1..Len(lines) : g \in Range(lines[i])]

MaxParts == 4

\* ac.duration of a narrated part
AudioLengths == {10, 20}

\* "duration": ac.duration + 0.3
PausePerPart == 3

\* total_duration = full_audio.duration + 1.0
EndHold == 10

\* Narrated parts of a beat: each with a position and a readable audio file
PartLists(n) == [1..n -> [position : 0..(n - 1), audio : AudioLengths]]

\* segments.append({"position": p_position, "duration": ac.duration + 0.3})
BeatSegments(ps) ==
    [i \in 1..Len(ps) |-> [position |-> <<ps[i].position>>,
                           duration |-> <<ps[i].audio + PausePerPart>>]]

\* concatenate_audioclips(audio_clips): part i starts where part i-1 ends
AudioStarts(ps) ==
    [i \in 1..Len(ps) |-> SumSeq([j \in 1..(i - 1) |-> ps[j].audio])]

TotalDuration(ps) == SumSeq([j \in 1..Len(ps) |-> ps[j].audio]) + EndHold

\* A glyph at the left edge, one at the right edge, both, or none
BeatGlyphLists ==
    LET L == [x |-> 0,    y |-> 0, w |-> 40, h |-> 40, area |-> 100, len |-> 160, npts |-> 3]
        R == [x |-> 1800, y |-> 0, w |-> 40, h |-> 40, area |-> 100, len |-> 160, npts |-> 3]
    IN { <<>>, <<Glyph(1, L)>>, <<Glyph(1, R)>>, <<Glyph(1, L), Glyph(2, R)>> }

InitBeat ==
    /\ pc = "init"
    /\ WsIdle
    /\ VoicesIdle
    /\ LookupIdle
    /\ IoIdle
    /\ \E n \in 1..MaxParts : parts \in PartLists(n)
    /\ audio_starts = <<>>
    /\ glyphs \in BeatGlyphLists
    /\ segments = <<>> /\ labels = <<>> /\ duration = 0
    /\ ordered_glyphs = <<>> /\ segment_glyphs = <<>>
    /\ glyph_sections = <<>> /\ segment_times = <<>>
    /\ t = -1 /\ reveal_mask = {}

\* Steps C and D: the audio of every part, the segments, the total duration
BuildBeat ==
    /\ pc = "init"
    /\ pc' = "beat"
    /\ segments' = BeatSegments(parts)
    /\ audio_starts' = AudioStarts(parts)
    /\ duration' = TotalDuration(parts)
    /\ UNCHANGED <<glyphs, labels, parts, ws, voices, lookup, io, ordered_glyphs, segment_glyphs,
                   glyph_sections, segment_times, t, reveal_mask>>

\* Step E: DoodleVideoGeneratorV8(image, path, segments, total_duration).generate()
GenerateBeat ==
    /\ pc = "beat"
    /\ pc' = "render"
    /\ glyph_sections' = GlyphSections(glyphs, segments)
    /\ segment_times' = SegmentTimesV8(segments)
    /\ UNCHANGED <<inputs, ws, voices, lookup, beat, io, ordered_glyphs, segment_glyphs, t, reveal_mask>>

\* Frame times of the clip looked at: its start, the start of every part's
\* audio, and the last tenth before its end
BeatFrames == {0, duration - 1} \cup Range(audio_starts)

NextBeat ==
    \/ BuildBeat
    \/ GenerateBeat
    \/ \E time \in BeatFrames : MakeFrameV8(time)

SpecBeat == InitBeat /\ [][NextBeat]_vars

\* Place of part i among the segments once sorted(key=position) has run
\* (stable: equal positions keep the order of the parts)
RankOfPart(i) ==
    1 + Cardinality({j \in 1..Len(parts) :
                        \/ parts[j].position < parts[i].position
                        \/ (parts[j].position = parts[i].position /\ j < i)})

\* C21: the reveal window of every part starts when the audio of that part
\* starts in the concatenated track.
C21_NarrationSync ==
    pc = "render" =>
        \A i \in 1..Len(parts) : segment_times[RankOfPart(i)].start = audio_starts[i]

\* C21 holds for the first part of a beat whose positions follow the
\* narration order, and for no later part
C21_FirstPartOnly ==
    (pc = "render" /\ \A i \in 1..Len(parts) : parts[i].position = i - 1) =>
        \A i \in 1..Len(parts) :
            segment_times[RankOfPart(i)].start = audio_starts[i] + PausePerPart * (i - 1)

\* C22: the last window ends no later than the clip, and the last frame of
\* the clip shows every glyph filled.
C22_DoodleCompletes ==
    pc = "render" =>
        /\ segment_times[Len(segment_times)].end <= duration
        /\ t = duration - 1 =>
              \A i \in 1..Len(glyphs) : Filled(glyphs[i].contours[1]) \subseteq reveal_mask

\* C22 holds for beats of at most three parts
C22_HoldsUpToThreeParts ==
    (pc = "render" /\ Len(parts) <= 3) =>
        /\ segment_times[Len(segment_times)].end <= duration
        /\ t = duration - 1 =>
              \A i \in 1..Len(glyphs) : Filled(glyphs[i].contours[1]) \subseteq reveal_mask

\* ------------------------------------------------------------------------
\* Reading order of V8
\* ------------------------------------------------------------------------

\* a lies entirely above b: its bottom edge is at or above the top edge of b
EntirelyAbove(a, b) == a.y + a.h <= b.y

\* C23: in the order returned by the reading-order sort of V8, a unit that
\* lies entirely above another unit comes before it.
C23_StrictReadingOrder ==
    pc = "reading" =>
        \A i, j \in 1..Len(ordered_glyphs) :
            EntirelyAbove(ordered_glyphs[i], ordered_glyphs[j]) => i < j

\* C23 holds when the input has at most two units
C23_HoldsForPairs ==
    (pc = "reading" /\ Len(glyphs) <= 2) =>
        \A i, j \in 1..Len(ordered_glyphs) :
            EntirelyAbove(ordered_glyphs[i], ordered_glyphs[j]) => i < j

\* ------------------------------------------------------------------------
\* The checkpoint cache of the constant-speed generators (V5 and V7)
\* ------------------------------------------------------------------------

MaxContours == 61

\* n glyphs of one small contour each, already in draw order
ContourRun(n) ==
    [j \in 1..n |-> [id |-> j, contours |-> << [cid |-> j, len |-> 4, pts |-> 2] >>]]

InitCache ==
    /\ pc = "init"
    /\ WsIdle
    /\ VoicesIdle
    /\ IoIdle /\ BeatIdle
    /\ boundary = -1
    /\ \E n \in 0..MaxContours : ordered_glyphs = ContourRun(n)
    /\ glyphs = <<>> /\ segments = <<>> /\ labels = <<>> /\ duration = 0
    /\ segment_glyphs = <<>>
    /\ glyph_sections = <<>> /\ segment_times = <<>>
    /\ t = -1 /\ reveal_mask = {}

\* make_frame of V5 from the cutoff on: checkpoint, then the contours up to i
LookupV5(i) ==
    /\ pc = "init"
    /\ pc' = "cache_v5"
    /\ boundary' = i
    /\ reveal_mask' = CacheLookupV5(AllContours(ordered_glyphs), i)
    /\ UNCHANGED <<inputs, ws, voices, beat, io, ordered_glyphs, segment_glyphs, glyph_sections,
                   segment_times, t>>

\* make_frame of V7 from idx on
LookupV7(i) ==
    /\ pc = "init"
    /\ pc' = "cache_v7"
    /\ boundary' = i
    /\ reveal_mask' = CacheLookupV7(AllContours(ordered_glyphs), i)
    /\ UNCHANGED <<inputs, ws, voices, beat, io, ordered_glyphs, segment_glyphs, glyph_sections,
                   segment_times, t>>

NextCache ==
    \/ \E i \in 0..Len(ordered_glyphs) : LookupV5(i)
    \/ \E i \in 0..Len(ordered_glyphs) : LookupV7(i)

SpecCache == InitCache /\ [][NextCache]_vars

\* The cache interval and the cache of the generator that made the lookup
IntervalInUse ==
    CacheInterval(AllContours(ordered_glyphs),
                  IF pc = "cache_v5" THEN CachePoints ELSE CachePointsV7)

\* C24: for every boundary index i the mask built from the checkpoint below
\* i and the contours from there to i - 1 is the mask of contours 0..i-1
\* drawn on an empty mask, and that checkpoint is in the cache.
C24_CacheIsPureOptimisation ==
    pc \in {"cache_v5", "cache_v7"} =>
        /\ reveal_mask = FilledContours(AllContours(ordered_glyphs), 0, boundary)
        /\ CachePoint(boundary, IntervalInUse)
              \in DOMAIN CachedMasks(AllContours(ordered_glyphs), IntervalInUse)

\* C24 witness: V7 with an interval of two contours and a lookup at the
\* last boundary, which is the last checkpoint
C24_Witness ==
    /\ pc = "cache_v7" /\ IntervalInUse = 2
    /\ boundary = Len(ordered_glyphs) /\ boundary % 2 = 0

\* C24 second case: V5 with an interval of three contours and a lookup two
\* contours past a checkpoint
C24_WitnessV5 ==
    /\ pc = "cache_v5" /\ IntervalInUse = 3
    /\ boundary % 3 = 2

\* ------------------------------------------------------------------------
\* DoodleVideoGeneratorV8_1: drawing segments, constant pen speed
\* ------------------------------------------------------------------------

\* self.pps, pixels of outline per second
PPS == 4000

\* Segment dicts of V8.1: drawing by default, talking only, drawing for the
\* default duration
SegmentDictsV8_1 ==
    { [draw |-> <<>>,      duration |-> <<2>>],
      [draw |-> <<FALSE>>, duration |-> <<2>>],
      [draw |-> <<TRUE>>,  duration |-> <<>>] }

\* [i for i, s in enumerate(self.segments) if s.get('draw', True)]
DrawingSegments(segs) ==
    SelectSeq([i \in 1..Len(segs) |-> i - 1], LAMBDA i : Get(segs[i + 1].draw, TRUE))

\* num_sections, with its fallback to 1
NumSectionsV8_1(segs) ==
    IF Len(DrawingSegments(segs)) = 0 THEN 1 ELSE Len(DrawingSegments(segs))

\* drawing_segments[spatial_sec_idx] of the glyphs, in glyph order; an index
\* outside the list raises IndexError
TargetSegments(gs, segs) ==
    [i \in 1..Len(gs) |->
        LET spatial_sec_idx == SectionIdx(gs[i], NumSectionsV8_1(segs))
        IN IF spatial_sec_idx < Len(DrawingSegments(segs))
           THEN DrawingSegments(segs)[spatial_sec_idx + 1]
           ELSE -1]

\* glyph_sections of V8.1 when no lookup has raised
GlyphSectionsV8_1(gs, segs) ==
    LET target == TargetSegments(gs, segs)
    IN [k \in Range(target) |->
          SortByPathV8_1(_safely_merge_words(
              SelectSeq(gs, LAMBDA g : \E i \in 1..Len(gs) : gs[i] = g /\ target[i] = k)))]

\* The windows, in the order of self.segments, each with its draw flag
RECURSIVE BuildTimesV8_1(_, _, _)
BuildTimesV8_1(segs, seq_idx, current_time) ==
    IF segs = <<>> THEN <<>>
    ELSE LET seg_duration == Get(Head(segs).duration, DefaultDuration)
         IN << [section_idx |-> seq_idx,
                start |-> current_time,
                end |-> current_time + seg_duration,
                draw |-> Get(Head(segs).draw, TRUE)] >>
            \o BuildTimesV8_1(Tail(segs), seq_idx + 1, current_time + seg_duration)

\* The glyph loop of the progressive draw: whole glyphs while the target
\* length covers them, then the outline of the next one
RECURSIVE DrawAtSpeed(_, _)
DrawAtSpeed(units, target_len) ==
    IF units = <<>> THEN {}
    ELSE LET glyph == Head(units)
         IN IF glyph.total_len <= target_len
            THEN FilledGlyph(glyph) \cup DrawAtSpeed(Tail(units), target_len - glyph.total_len)
            ELSE IF target_len > 0
                 THEN ActiveContours(glyph.contours, 0, target_len, 1)
                 ELSE {}

\* One segment of the frame of V8.1
SegmentMaskV8_1(sections, seg_info, time) ==
    IF time < seg_info.start THEN {}
    ELSE IF seg_info.section_idx \notin DOMAIN sections THEN {}
    ELSE LET glyphs_in_section == sections[seg_info.section_idx]
             total_section_len ==
                 Max2(1, SumSeq([u \in 1..Len(glyphs_in_section) |->
                                    glyphs_in_section[u].total_len]))
         IN IF glyphs_in_section = <<>> THEN {}
            ELSE IF time >= seg_info.end \/ ~seg_info.draw
                 THEN FilledGlyphs(glyphs_in_section)
                 ELSE DrawAtSpeed(glyphs_in_section,
                                  Min2(total_section_len, (time - seg_info.start) * PPS))

make_frame_V8_1(gs, segs, sections, times, time) ==
    IF segs # <<>> /\ times # <<>>
    THEN UNION {SegmentMaskV8_1(sections, times[i], time) : i \in 1..Len(times)}
    ELSE AllPixels(gs)

InitV8_1 ==
    /\ pc = "init"
    /\ WsIdle
    /\ VoicesIdle
    /\ IoIdle /\ BeatIdle /\ LookupIdle
    /\ glyphs \in GlobalLists
    /\ \E n \in 0..MaxSegments : segments \in [1..n -> SegmentDictsV8_1]
    /\ labels = <<>> /\ duration = 0
    /\ ordered_glyphs = <<>> /\ segment_glyphs = <<>>
    /\ glyph_sections = <<>> /\ segment_times = <<>>
    /\ t = -1 /\ reveal_mask = {}

\* generate() of V8.1 up to the clip: it raises at the first glyph whose
\* section has no drawing segment
GenerateV8_1 ==
    /\ pc = "init"
    /\ IF -1 \in Range(TargetSegments(glyphs, segments))
       THEN /\ pc' = "raised"
            /\ raised' = "IndexError"
            /\ UNCHANGED <<glyph_sections, segment_times>>
       ELSE /\ pc' = "v8_1"
            /\ raised' = ""
            /\ glyph_sections' = GlyphSectionsV8_1(glyphs, segments)
            /\ segment_times' = BuildTimesV8_1(segments, 0, 0)
    /\ UNCHANGED <<inputs, ws, voices, beat, lookup, image, output, reads, ordered_glyphs,
                   segment_glyphs, t, reveal_mask>>

MakeFrameV8_1(time) ==
    /\ pc = "v8_1"
    /\ t' = time
    /\ reveal_mask' = make_frame_V8_1(glyphs, segments, glyph_sections, segment_times, time)
    /\ UNCHANGED <<pc, inputs, ws, voices, beat, lookup, io, ordered_glyphs, segment_glyphs,
                   glyph_sections, segment_times>>

NextV8_1 ==
    \/ GenerateV8_1
    \/ \E time \in Times : MakeFrameV8_1(time)

SpecV8_1 == InitV8_1 /\ [][NextV8_1]_vars

\* C25: when no segment is a drawing segment, generate() does not raise,
\* every glyph is in a section, and without segments every frame shows the
\* whole image.
C25_SingleSectionFallback ==
    (pc # "init" /\ DrawingSegments(segments) = <<>>) =>
        /\ pc = "v8_1" /\ raised = ""
        /\ Cardinality(AllOccurrences(glyph_sections)) = Len(glyphs)
        /\ (segments = <<>> /\ t >= 0) => reveal_mask = AllPixels(glyphs)

\* C25 holds for an image without glyphs
C25_HoldsWithoutGlyphs ==
    (pc # "init" /\ DrawingSegments(segments) = <<>> /\ glyphs = <<>>) =>
        /\ pc = "v8_1" /\ raised = ""
        /\ glyph_sections = <<>>
        /\ (segments = <<>> /\ t >= 0) => reveal_mask = AllPixels(glyphs)

\* With at least one drawing segment generate() of V8.1 never raises
C25_DrawingSegmentsNeverRaise ==
    (pc # "init" /\ DrawingSegments(segments) # <<>>) => (pc = "v8_1" /\ raised = "")

\* ------------------------------------------------------------------------
\* voices.py: get_voices() called from the synchronous /voices handler,
\* which the server runs on worker threads
\* ------------------------------------------------------------------------

MaxCallers == 3

\* What one call of fetch_elevenlabs_voices can return: the voices of the
\* account, or {} without a key or after a failed request
FetchResults == {"voices", "empty"}

\* A call that has not started
NoCall == [at |-> "start", fetched |-> "None", returned |-> "None"]

\* The state of the generators is of no concern to the voice cache
GeneratorIdle ==
    /\ glyphs = <<>> /\ segments = <<>> /\ labels = <<>> /\ duration = 0
    /\ ordered_glyphs = <<>> /\ segment_glyphs = <<>>
    /\ glyph_sections = <<>> /\ segment_times = <<>>
    /\ t = -1 /\ reveal_mask = {}

InitVoices ==
    /\ pc = "init"
    /\ WsIdle
    /\ IoIdle /\ BeatIdle /\ LookupIdle
    /\ GeneratorIdle
    /\ voices_cache = "None" /\ fetch_count = 0
    /\ \E n \in 1..MaxCallers : callers = [c \in 1..n |-> NoCall]

\* if _VOICES_CACHE is None: the call either goes on to fetch or to return
CheckCache(c) ==
    /\ callers[c].at = "start"
    /\ callers' = [callers EXCEPT ![c].at =
                     IF voices_cache = "None" THEN "fetch" ELSE "return"]
    /\ UNCHANGED <<pc, inputs, ws, beat, lookup, io, voices_cache, fetch_count, ordered_glyphs,
                   segment_glyphs, glyph_sections, segment_times, t, reveal_mask>>

\* fetch_elevenlabs_voices(): the request, outside any lock
Fetch(c, result) ==
    /\ callers[c].at = "fetch"
    /\ fetch_count' = fetch_count + 1
    /\ callers' = [callers EXCEPT ![c].at = "store", ![c].fetched = result]
    /\ UNCHANGED <<pc, inputs, ws, beat, lookup, io, voices_cache, ordered_glyphs,
                   segment_glyphs, glyph_sections, segment_times, t, reveal_mask>>

\* _VOICES_CACHE = <the fetched value>
StoreCache(c) ==
    /\ callers[c].at = "store"
    /\ voices_cache' = callers[c].fetched
    /\ callers' = [callers EXCEPT ![c].at = "return"]
    /\ UNCHANGED <<pc, inputs, ws, beat, lookup, io, fetch_count, ordered_glyphs,
                   segment_glyphs, glyph_sections, segment_times, t, reveal_mask>>

\* return _VOICES_CACHE: the global is read again
ReturnVoices(c) ==
    /\ callers[c].at = "return"
    /\ callers' = [callers EXCEPT ![c].at = "done", ![c].returned = voices_cache]
    /\ UNCHANGED <<pc, inputs, ws, beat, lookup, io, voices_cache, fetch_count, ordered_glyphs,
                   segment_glyphs, glyph_sections, segment_times, t, reveal_mask>>

NextVoices ==
    \/ \E c \in 1..Len(callers) : CheckCache(c)
    \/ \E c \in 1..Len(callers) : \E result \in FetchResults : Fetch(c, result)
    \/ \E c \in 1..Len(callers) : StoreCache(c)
    \/ \E c \in 1..Len(callers) : ReturnVoices(c)

SpecVoices == InitVoices /\ [][NextVoices]_vars

\* Calls one after the other: a call starts only when no other is under way
CheckCacheInTurn(c) ==
    /\ \A o \in 1..Len(callers) : callers[o].at \in {"start", "done"}
    /\ CheckCache(c)

NextVoicesInTurn ==
    \/ \E c \in 1..Len(callers) : CheckCacheInTurn(c)
    \/ \E c \in 1..Len(callers) : \E result \in FetchResults : Fetch(c, result)
    \/ \E c \in 1..Len(callers) : StoreCache(c)
    \/ \E c \in 1..Len(callers) : ReturnVoices(c)

SpecVoicesInTurn == InitVoices /\ [][NextVoicesInTurn]_vars

\* C26: fetch_elevenlabs_voices is called at most once, and every call of
\* get_voices() that has returned has returned the same value.
C26_VoicesFetchedOnce ==
    /\ fetch_count <= 1
    /\ \A c, o \in 1..Len(callers) :
          (callers[c].at = "done" /\ callers[o].at = "done") =>
              callers[c].returned = callers[o].returned

\* C26 holds when the calls do not overlap
C26_HoldsInTurn ==
    /\ fetch_count <= 1
    /\ \A c, o \in 1..Len(callers) :
          (callers[c].at = "done" /\ callers[o].at = "done") =>
              (callers[c].returned = callers[o].returned /\ callers[c].returned # "None")

----------------------------------------------------------------------------
(* Segment progress of V8 and V6 over segment durations of any sign: the    *)
(* frame function divides by seg_end - seg_start in its progress branch     *)

\* Segment durations: negative, zero and positive
ProgressDurations == {-2, 0, 2}

\* Segment dicts: a duration, and for V6 no bbox, the left half of the image
\* or its right half
ProgressDicts ==
    { [position |-> <<>>, duration |-> <<d>>, bbox |-> b] :
        d \in ProgressDurations,
        b \in { <<>>, <<0, 0, 1000, 500>>, <<0, 500, 1000, 1000>> } }

ProgressSegmentLists == UNION { [1..n -> ProgressDicts] : n \in 0..MaxSegments }

\* The components found in the image, in label order
ProgressGeoms ==
    << [x |-> 0,   y |-> 0,   w |-> 40,  h |-> 40,  area |-> 100,   len |-> 160,  npts |-> 3],
       [x |-> 1000, y |-> 0,  w |-> 40,  h |-> 40,  area |-> 100,   len |-> 160,  npts |-> 3],
       [x |-> 100, y |-> 400, w |-> 200, h |-> 300, area |-> 12000, len |-> 1000, npts |-> 4],
       [x |-> 1010, y |-> 300, w |-> 40, h |-> 40,  area |-> 100,   len |-> 160,  npts |-> 3],
       [x |-> 50,  y |-> 0,   w |-> 40,  h |-> 40,  area |-> 100,   len |-> 160,  npts |-> 3] >>

ProgressGlyphLists ==
    { [i \in 1..n |-> Glyph(i, ProgressGeoms[i])] :
        n \in 0..(IF MaxGlyphs < Len(ProgressGeoms) THEN MaxGlyphs ELSE Len(ProgressGeoms)) }

\* V6 _sort_glyphs_in_segment: by (y // 20, x)
_sort_glyphs_in_segment(gs) ==
    Sorted(gs, [i \in 1..Len(gs) |-> << gs[i].y \div 20, gs[i].x >>])

\* V6 glyph_sections: one entry per segment (one when there are no segments)
GlyphSectionsV6(gs, img_w, img_h, segs) ==
    LET segment_glyph_map == _cluster_glyphs_by_bbox(gs, img_w, img_h, segs)
        num_segments == IF segs # <<>> THEN Len(segs) ELSE 1
    IN [i \in 0..(num_segments - 1) |->
          IF i \in DOMAIN segment_glyph_map
          THEN _sort_glyphs_in_segment(segment_glyph_map[i])
          ELSE <<>>]

\* V6 timing: the segments in list order
SegmentTimesV6(segs) == BuildTimes(segs, 0, 0)

\* The branch V6's make_frame takes for one segment
BranchV6(sections, seg_info, time) ==
    LET glyphs_in_section == IF seg_info.section_idx \in DOMAIN sections
                             THEN sections[seg_info.section_idx] ELSE <<>>
    IN IF glyphs_in_section = <<>> THEN "skip"
       ELSE IF time >= seg_info.end THEN "fill"
       ELSE IF time >= seg_info.start THEN "progress"
       ELSE "skip"

\* V6 partial reveal: whole glyphs up to int(len * seg_progress)
ProgressiveDrawV6(units, seg_start, seg_end, time) ==
    LET segs_to_show == (Len(units) * (time - seg_start)) \div (seg_end - seg_start)
    IN FilledGlyphs(SubSeq(units, 1, segs_to_show))

SegmentMaskV6(sections, seg_info, time) ==
    LET branch == BranchV6(sections, seg_info, time)
    IN IF branch = "skip" THEN {}
       ELSE LET glyphs_in_section == sections[seg_info.section_idx]
            IN IF branch = "fill" THEN FilledGlyphs(glyphs_in_section)
               ELSE ProgressiveDrawV6(glyphs_in_section, seg_info.start, seg_info.end, time)

make_frame_V6(segs, sections, times, time) ==
    IF segs # <<>> /\ times # <<>>
    THEN UNION {SegmentMaskV6(sections, times[i], time) : i \in 1..Len(times)}
    ELSE {}

\* The denominators seg_end - seg_start a frame at this time divides by
DivisorsV8(segs, sections, times, time) ==
    IF segs # <<>> /\ times # <<>>
    THEN {times[i].end - times[i].start :
            i \in {k \in 1..Len(times) : BranchV8(sections, times[k], time) = "progress"}}
    ELSE {}

DivisorsV6(segs, sections, times, time) ==
    IF segs # <<>> /\ times # <<>>
    THEN {times[i].end - times[i].start :
            i \in {k \in 1..Len(times) : BranchV6(sections, times[k], time) = "progress"}}
    ELSE {}

InitProgress ==
    /\ pc = "init"
    /\ WsIdle
    /\ VoicesIdle
    /\ LookupIdle
    /\ BeatIdle
    /\ IoIdle
    /\ glyphs \in ProgressGlyphLists
    /\ segments \in ProgressSegmentLists
    /\ labels = <<>> /\ duration = 0
    /\ ordered_glyphs = <<>> /\ segment_glyphs = <<>>
    /\ glyph_sections = <<>>
    /\ segment_times = <<>>
    /\ t = -1
    /\ reveal_mask = {}

\* V6 generate() up to the frame function
GenerateV6 ==
    /\ pc = "init"
    /\ IF KeyErrorV6(glyphs, new_w, new_h, segments)
       THEN /\ pc' = "raised"
            /\ raised' = "KeyError"
            /\ UNCHANGED <<segment_glyphs, glyph_sections, segment_times>>
       ELSE /\ pc' = "render_v6"
            /\ raised' = raised
            /\ segment_glyphs' = _cluster_glyphs_by_bbox(glyphs, new_w, new_h, segments)
            /\ glyph_sections' = GlyphSectionsV6(glyphs, new_w, new_h, segments)
            /\ segment_times' = SegmentTimesV6(segments)
    /\ UNCHANGED <<inputs, ws, voices, lookup, beat, image, output, reads, ordered_glyphs, t, reveal_mask>>

\* One call of V8's make_frame; a division by zero raises ZeroDivisionError
FrameV8(time) ==
    /\ pc = "render"
    /\ t' = time
    /\ IF 0 \in DivisorsV8(segments, glyph_sections, segment_times, time)
       THEN /\ pc' = "raised"
            /\ raised' = "ZeroDivisionError"
            /\ reveal_mask' = reveal_mask
       ELSE /\ pc' = pc
            /\ raised' = raised
            /\ reveal_mask' = make_frame_V8(glyphs, segments, glyph_sections, segment_times, time)
    /\ UNCHANGED <<inputs, ws, voices, lookup, beat, image, output, reads, ordered_glyphs, segment_glyphs, glyph_sections, segment_times>>

\* One call of V6's make_frame
FrameV6(time) ==
    /\ pc = "render_v6"
    /\ t' = time
    /\ IF 0 \in DivisorsV6(segments, glyph_sections, segment_times, time)
       THEN /\ pc' = "raised"
            /\ raised' = "ZeroDivisionError"
            /\ reveal_mask' = reveal_mask
       ELSE /\ pc' = pc
            /\ raised' = raised
            /\ reveal_mask' = make_frame_V6(segments, glyph_sections, segment_times, time)
    /\ UNCHANGED <<inputs, ws, voices, lookup, beat, image, output, reads, ordered_glyphs, segment_glyphs, glyph_sections, segment_times>>

NextProgress ==
    \/ GenerateV8
    \/ GenerateV6
    \/ \E time \in Times : FrameV8(time)
    \/ \E time \in Times : FrameV6(time)

SpecProgress == InitProgress /\ [][NextProgress]_vars

\* The segments whose progress quotient the frame at the current time evaluates
InProgress ==
    IF t = -1 \/ segments = <<>> \/ segment_times = <<>> THEN {}
    ELSE {i \in 1..Len(segment_times) :
            \/ pc = "render" /\ BranchV8(glyph_sections, segment_times[i], t) = "progress"
            \/ pc = "render_v6" /\ BranchV6(glyph_sections, segment_times[i], t) = "progress"}

\* C27: no frame raises ZeroDivisionError, and whenever the progress quotient
\* (t - seg.start)/(seg.end - seg.start) of a segment is evaluated,
\* seg.start <= t < seg.end holds, so the denominator is strictly positive,
\* for segment durations of any sign and every query time, in V8 and in V6.
C27_NoDivisionByZero ==
    /\ raised # "ZeroDivisionError"
    /\ \A i \in InProgress :
          /\ segment_times[i].start <= t
          /\ t < segment_times[i].end
          /\ segment_times[i].end - segment_times[i].start > 0

\* V8 evaluates a quotient at the very time where a segment of duration zero
\* with glyphs starts and ends
C27_Witness ==
    /\ pc = "render"
    /\ InProgress # {}
    /\ \E i \in 1..Len(segment_times) :
          /\ segment_times[i].start = t
          /\ segment_times[i].end = t
          /\ BranchV8(glyph_sections, segment_times[i], t) = "fill"

\* V8 and V6 evaluate a quotient while a segment of negative duration with
\* glyphs has ended but not started
C27_WitnessNegative ==
    /\ pc \in {"render", "render_v6"}
    /\ InProgress # {}
    /\ \E i \in 1..Len(segment_times) :
          /\ segment_times[i].end <= t
          /\ t < segment_times[i].start
          /\ segment_times[i].section_idx \in DOMAIN glyph_sections
          /\ glyph_sections[segment_times[i].section_idx] # <<>>

\* The same case in V6
C27_WitnessV6 ==
    /\ pc = "render_v6"
    /\ InProgress # {}
    /\ \E i \in 1..Len(segment_times) :
          /\ segment_times[i].start = t
          /\ segment_times[i].end = t
          /\ BranchV6(glyph_sections, segment_times[i], t) = "fill"

----------------------------------------------------------------------------
(* main.py websocket_generate and worker_main.py run_worker: the sessions   *)
(* of one user, the machine and the worker each session spawns, and the     *)
(* User and Video rows they share                                           *)

MaxSessions == 2

\* for _ in range(max_retries)
max_retries == 120

\* user_plan == "free" and user_video_count >= 3
FreeLimit == 3

\* data.get("topic", "").strip(): empty or a topic
Topics == {"", "cats"}

\* data.get("user_id"): missing (0), the user (1), an id without a row (2)
UserIds == {0, 1, 2}

\* User.plan: a plan or NULL
Plans == {"free", "pro", "None"}

\* The Video table before the session: empty, or one older video of the same
\* topic made for the user, or one made for somebody else
OlderVideos ==
    { <<>>,
      << [title |-> "cats", user_id |-> 1, by |-> 0] >>,
      << [title |-> "cats", user_id |-> 2, by |-> 0] >> }

NewSession(topic, user_id) ==
    [pc |-> "receive", topic |-> topic, user_id |-> user_id, polls |-> 0,
     sent |-> <<>>, closed |-> FALSE, machine |-> "none", worker |-> "none"]

\* A message of the socket: its status and the id of the Video row it names
Message(status, video) == [status |-> status, video |-> video]

\* send_json of a message that is not the last one
Progress(sess, next) ==
    [sess EXCEPT !.sent = Append(@, Message("processing", 0)), !.pc = next]

\* send_json of the last message, close() and return
Verdict(sess, status, video) ==
    [sess EXCEPT !.sent = Append(@, Message(status, video)),
                 !.closed = TRUE, !.pc = "done"]

\* current_user.plan or "free"
PlanOrFree(p) == IF p = "None" THEN "free" ELSE p

\* The generators do not run on the server
ServerOnly ==
    UNCHANGED <<pc, inputs, voices, lookup, beat, io, ordered_glyphs, segment_glyphs,
                glyph_sections, segment_times, t, reveal_mask>>

\* 1. receive_json and the test of topic and user_id
Receive(s) ==
    /\ sessions[s].pc = "receive"
    /\ sessions' = [sessions EXCEPT ![s] =
          IF @.topic = "" \/ @.user_id = 0
          THEN Verdict(@, "error", 0)
          ELSE [@ EXCEPT !.pc = "verify"]]
    /\ UNCHANGED <<plan, video_count, videos>>
    /\ ServerOnly

\* 2. and 3. the user's row is read and the limit tested, then "Spawning worker..."
VerifyUser(s) ==
    /\ sessions[s].pc = "verify"
    /\ sessions' = [sessions EXCEPT ![s] =
          IF @.user_id # 1
          THEN Verdict(@, "error", 0)
          ELSE IF PlanOrFree(plan) = "free" /\ video_count >= FreeLimit
          THEN Verdict(@, "error", 0)
          ELSE Progress(@, "spawn")]
    /\ UNCHANGED <<plan, video_count, videos>>
    /\ ServerOnly

\* What the spawn can come to: no FLY_API_TOKEN, a response other than 200, or
\* a machine
SpawnOutcomes == {"no_token", "refused", "ok"}

\* 4. the machine is requested; with a machine, "Worker started. Generating..."
Spawn(s, outcome) ==
    /\ sessions[s].pc = "spawn"
    /\ sessions' = [sessions EXCEPT ![s] =
          IF outcome # "ok"
          THEN Verdict(@, "error", 0)
          ELSE Progress([@ EXCEPT !.machine = "started", !.worker = "running"], "poll")]
    /\ UNCHANGED <<plan, video_count, videos>>
    /\ ServerOnly

\* What the status request answers: the state of the machine (404 once it is
\* gone), or another status code
StatusAnswers == {"status", "unavailable"}

\* The loop is left on 404 and on a stopped or destroyed machine
Breaks(sess, answer) ==
    /\ answer = "status"
    /\ sess.machine \in {"gone", "stopped", "destroyed"}

\* Mutant: a while loop that never gives up
PollNext_Unbounded(sess, answer) ==
    IF Breaks(sess, answer) THEN "fetch" ELSE "poll"

\* Where the handler is after one iteration of the polling loop
PollNext(sess, answer) ==
    IF Breaks(sess, answer) \/ sess.polls + 1 >= max_retries THEN "fetch" ELSE "poll"

\* 5. one iteration of the polling loop
Poll(s, answer) ==
    /\ sessions[s].pc = "poll"
    /\ sessions' = [sessions EXCEPT ![s] =
          [@ EXCEPT !.polls = IF @ < max_retries THEN @ + 1 ELSE @,
                    !.pc = PollNext(sessions[s], answer)]]
    /\ UNCHANGED <<plan, video_count, videos>>
    /\ ServerOnly

\* 5. the whole polling loop: left by a break, or after max_retries iterations
PollLoop(s, exhausted) ==
    /\ sessions[s].pc = "poll"
    /\ exhausted \/ Breaks(sessions[s], "status")
    /\ sessions' = [sessions EXCEPT ![s] =
          [@ EXCEPT !.polls = IF exhausted THEN max_retries ELSE 1, !.pc = "fetch"]]
    /\ UNCHANGED <<plan, video_count, videos>>
    /\ ServerOnly

\* The rows selected by user_id and title, by index
Matching(rows, sess) ==
    {i \in 1..Len(rows) : rows[i].user_id = sess.user_id /\ rows[i].title = sess.topic}

\* order_by(created_at.desc()).limit(1): the newest matching row, 0 for none
NewVideo(rows, sess) ==
    IF Matching(rows, sess) = {} THEN 0
    ELSE CHOOSE i \in Matching(rows, sess) : \A j \in Matching(rows, sess) : j <= i

\* Mutant: a missing row is not reported
FetchVerdict_SilentFailure(sess, new_video) ==
    IF new_video # 0
    THEN Verdict(sess, "success", new_video)
    ELSE [sess EXCEPT !.closed = TRUE, !.pc = "done"]

\* The message after the query, and close()
FetchVerdict(sess, new_video) ==
    IF new_video # 0
    THEN Verdict(sess, "success", new_video)
    ELSE Verdict(sess, "error", 0)

\* 6. the newest Video of this user and topic; with one, video_count + 1
FetchResult(s) ==
    /\ sessions[s].pc = "fetch"
    /\ LET new_video == NewVideo(videos, sessions[s])
       IN /\ video_count' = IF new_video # 0 THEN video_count + 1 ELSE video_count
          /\ sessions' = [sessions EXCEPT ![s] = FetchVerdict(@, new_video)]
    /\ UNCHANGED <<plan, videos>>
    /\ ServerOnly

\* except Exception: a request to Fly or to the database raises; the handler
\* sends the error and closes
Raise(s) ==
    /\ sessions[s].pc \in {"verify", "spawn", "poll", "fetch"}
    /\ sessions' = [sessions EXCEPT ![s] = Verdict(@, "error", 0)]
    /\ UNCHANGED <<plan, video_count, videos>>
    /\ ServerOnly

\* run_worker: sys.exit(1) before the Video row is written
WorkerFails(s) ==
    /\ sessions[s].worker = "running"
    /\ sessions' = [sessions EXCEPT ![s] = [@ EXCEPT !.worker = "failed", !.machine = "stopped"]]
    /\ UNCHANGED <<plan, video_count, videos>>
    /\ ServerOnly

\* run_worker: db.add(new_video); db.commit()
WorkerRecords(s) ==
    /\ sessions[s].worker = "running"
    /\ videos' = Append(videos, [title |-> sessions[s].topic,
                                  user_id |-> sessions[s].user_id, by |-> s])
    /\ sessions' = [sessions EXCEPT ![s] = [@ EXCEPT !.worker = "recorded"]]
    /\ UNCHANGED <<plan, video_count>>
    /\ ServerOnly

\* run_worker returns or exits after the Video row
WorkerExits(s) ==
    /\ sessions[s].worker = "recorded"
    /\ sessions' = [sessions EXCEPT ![s] = [@ EXCEPT !.worker = "exited", !.machine = "stopped"]]
    /\ UNCHANGED <<plan, video_count, videos>>
    /\ ServerOnly

\* auto_destroy: a stopped machine is destroyed, then unknown to the API
MachineDestroyed(s) ==
    /\ sessions[s].machine \in {"stopped", "destroyed"}
    /\ sessions' = [sessions EXCEPT ![s] =
          [@ EXCEPT !.machine = IF @ = "stopped" THEN "destroyed" ELSE "gone"]]
    /\ UNCHANGED <<plan, video_count, videos>>
    /\ ServerOnly

\* One session of a user, any config, any row of the user
InitSession ==
    /\ pc = "init"
    /\ IoIdle /\ BeatIdle /\ LookupIdle /\ VoicesIdle
    /\ GeneratorIdle
    /\ \E topic \in Topics, user_id \in UserIds :
          sessions = << NewSession(topic, user_id) >>
    /\ plan \in Plans
    /\ video_count \in 0..FreeLimit
    /\ videos \in OlderVideos

\* The steps of the handler of session s
SessionStep(s) ==
    \/ Receive(s)
    \/ VerifyUser(s)
    \/ \E outcome \in SpawnOutcomes : Spawn(s, outcome)
    \/ \E answer \in StatusAnswers : Poll(s, answer)
    \/ FetchResult(s)

NextSession ==
    \/ \E s \in 1..Len(sessions) : Receive(s)
    \/ \E s \in 1..Len(sessions) : VerifyUser(s)
    \/ \E s \in 1..Len(sessions) : \E outcome \in SpawnOutcomes : Spawn(s, outcome)
    \/ \E s \in 1..Len(sessions) : \E answer \in StatusAnswers : Poll(s, answer)
    \/ \E s \in 1..Len(sessions) : FetchResult(s)
    \/ \E s \in 1..Len(sessions) : Raise(s)
    \/ \E s \in 1..Len(sessions) : WorkerFails(s)
    \/ \E s \in 1..Len(sessions) : WorkerRecords(s)
    \/ \E s \in 1..Len(sessions) : WorkerExits(s)
    \/ \E s \in 1..Len(sessions) : MachineDestroyed(s)

SpecSession == InitSession /\ [][NextSession]_vars

\* The event loop runs a handler that can go on: sleeps and requests return
SpecSessionFair == SpecSession /\ WF_vars(SessionStep(1))

\* Sessions of the free user opened side by side
InitSessions ==
    /\ pc = "init"
    /\ IoIdle /\ BeatIdle /\ LookupIdle /\ VoicesIdle
    /\ GeneratorIdle
    /\ \E n \in 1..MaxSessions :
          sessions \in [1..n -> {NewSession(topic, 1) : topic \in {"cats", "dogs"}}]
    /\ plan = "free"
    /\ video_count \in 0..FreeLimit
    /\ videos = <<>>

NextSessions ==
    \/ \E s \in 1..Len(sessions) : Receive(s)
    \/ \E s \in 1..Len(sessions) : VerifyUser(s)
    \/ \E s \in 1..Len(sessions) : \E outcome \in SpawnOutcomes : Spawn(s, outcome)
    \/ \E s \in 1..Len(sessions) : \E exhausted \in BOOLEAN : PollLoop(s, exhausted)
    \/ \E s \in 1..Len(sessions) : FetchResult(s)
    \/ \E s \in 1..Len(sessions) : Raise(s)
    \/ \E s \in 1..Len(sessions) : WorkerFails(s)
    \/ \E s \in 1..Len(sessions) : WorkerRecords(s)
    \/ \E s \in 1..Len(sessions) : WorkerExits(s)
    \/ \E s \in 1..Len(sessions) : MachineDestroyed(s)

SpecSessions == InitSessions /\ [][NextSessions]_vars

\* The last messages (success or error) a session has sent
Verdicts(sess) == SelectSeq(sess.sent, LAMBDA m : m.status \in {"success", "error"})

\* C28: the video_count of a user on the free plan never exceeds 3, however
\* the user's concurrent sessions interleave.
C28_FreeTierLimit ==
    PlanOrFree(plan) = "free" => video_count <= FreeLimit

\* C28 holds for a user who has one session at a time
C28_HoldsForOneSession ==
    (PlanOrFree(plan) = "free" /\ Len(sessions) = 1) => video_count <= FreeLimit

\* C29: a session sends success only if the worker spawned for it created a
\* Video row, the row it names is that one, and a session whose worker failed
\* ends with error, also when an older Video of the user and topic exists.
C29_SuccessIsThisRequest ==
    \A s \in 1..Len(sessions) :
        /\ \A i \in 1..Len(sessions[s].sent) :
              sessions[s].sent[i].status = "success" =>
                  /\ sessions[s].worker \in {"recorded", "exited"}
                  /\ videos[sessions[s].sent[i].video].by = s
        /\ (sessions[s].pc = "done" /\ sessions[s].worker = "failed") =>
              Verdicts(sessions[s]) = << Message("error", 0) >>

\* C29 holds when no older Video of the user and topic exists
C29_HoldsWithoutOlderVideo ==
    (\A i \in 1..Len(videos) : videos[i].by # 0 \/ videos[i].user_id # 1) =>
        C29_SuccessIsThisRequest

\* The loop is bounded, a verdict is the last message and closes the socket,
\* and a closed socket has had exactly one verdict
OneVerdict ==
    \A s \in 1..Len(sessions) :
        LET sess == sessions[s]
        IN /\ sess.polls <= max_retries
           /\ Len(Verdicts(sess)) <= 1
           /\ Len(Verdicts(sess)) = 1 =>
                 (sess.closed /\ sess.sent[Len(sess.sent)].status \in {"success", "error"})
           /\ sess.closed => Len(Verdicts(sess)) = 1
           /\ sess.pc = "poll" => sess.polls < max_retries

====
